---- MODULE Spec2Model ----
(***************************************************************************)
(* The bridge protocol of jupyterlite-zestables.                           *)
(*                                                                         *)
(*   parent page   template/bridge.js      (request router, session        *)
(*                                          controller, submission)        *)
(*   child frame   bridge-shim.js v3.1     (message handler over the       *)
(*                                          runtime's IndexedDB store)     *)
(*   server        Zest.loadState / saveState / submitWork                 *)
(*                                                                         *)
(* The two contexts are single threaded; every action below is one         *)
(* macrotask of one context (a message handler, a timer callback, a        *)
(* click handler) together with the promise reactions it runs.             *)
(***************************************************************************)
EXTENDS Integers, Sequences, FiniteSets, TLC

\* ------------------------------------------------------------------------
\* Bounds of the model
\* ------------------------------------------------------------------------
MaxReq == 4
MaxEnv == 1
\* Requests a wrapper posts to the shim on its own.
MaxAsk == 3

\* ------------------------------------------------------------------------
\* Program constants
\* ------------------------------------------------------------------------
MAX_EVENTS == 500

\* ------------------------------------------------------------------------
\* Values
\* ------------------------------------------------------------------------
\* A Document: identity of its content, number of cells, number of cells
\* that carry an execution_count.  Null is JavaScript's null.
Null == [id |-> 0, cells |-> 0, execs |-> 0]
Template == [id |-> 1, cells |-> 1, execs |-> 0]
DocA == [id |-> 2, cells |-> 3, execs |-> 1]
DocB == [id |-> 3, cells |-> 2, execs |-> 2]
Docs == {Template, DocA, DocB}

\* A FileArtifact is named by its key in the store; 2 is "data/x.csv".
FILE_X == 2
FILE_Y == 3

Truthy(doc) == doc.id # 0

RECURSIVE SortedSeq(_)
SortedSeq(S) ==
  IF S = {} THEN <<>>
  ELSE LET m == CHOOSE x \in S : \A y \in S : x <= y
       IN <<m>> \o SortedSeq(S \ {m})

SeqToSet(s) == {s[i] : i \in 1..Len(s)}

\* The data of an envelope, and the value a request promise settles with.
\*   null      the value is null (no object)
\*   hasFiles  the object has a `files` field (an empty array is truthy)
\*   isDirty   the flag of a `dirty` notification
\*   re        the request the sender was answering (0: unsolicited)
\*   error     the object has an `error` field: the store read failed
NoData ==
  [null |-> TRUE, notebook |-> Null, hasFiles |-> FALSE, files |-> <<>>,
   success |-> FALSE, isDirty |-> FALSE, cellCount |-> 0,
   executionCount |-> 0, re |-> 0, error |-> FALSE]
EmptyData == [NoData EXCEPT !.null = FALSE]

\* The SessionState object as bridge.js constructs it.
InitialState ==
  [notebook |-> Null, files |-> <<>>, timeSpent |-> 0, interactions |-> 0,
   cellExecutions |-> 0, submitted |-> FALSE]

VARIABLES
  \* ---- parent page ----
  phase, zestAvailable, isReview, st, events,
  saveTimer, timeTimer, autoSaveTimers, extensionReady, stateRestored,
  requestId, pending, timeouts, reqs, ops,
  btnDisabled, dialogVisible,
  \* ---- channel ----
  toChild, toParent,
  \* ---- child frame ----
  childLoaded, gen, shimReady, handlers, reloadTimer,
  storeExists, store, rtDoc, flushPending,
  \* ---- server ----
  srv, submissions,
  \* ---- environment events so far; history: `ready` notifications handled,
  \* ---- the SessionState the session started from, _state.notebook at the
  \* ---- first `ready`
  env, readies, loaded, firstDoc,
  \* ---- the isolation guard seen step by step: the stores of the platform,
  \* ---- the progress of clearJupyterLiteStorage, the iframe
  dbs, guard, frame,
  \* ---- storage adapter of the v3.1 shim, step by step ----
  idb, expected, canEnum, dbName, isReady, aops, conns, emitted, checkTimer,
  \* ---- the `files` collection and the results of the store functions ----
  kv, wrote, restoredList, outcome,
  \* ---- the event log on its own, at its real capacity ----
  elog,
  \* ---- the store connection of the v3 shim (template/bridge-shim.js) ----
  shim3,
  \* ---- the promise chain of restoreFilesToDB, write by write ----
  chain,
  \* ---- init() of the parent page, callback by callback ----
  boot,
  \* ---- envelopes delivered from outside the protocol: how many, and the
  \* ---- receiver, tag and sender of the last one
  stray

routerVars == <<requestId, pending, timeouts, reqs, ops>>
ctlVars == <<st, events, saveTimer, timeTimer, autoSaveTimers, extensionReady,
             stateRestored>>
uiVars == <<btnDisabled, dialogVisible>>
sessVars == <<phase, zestAvailable, isReview>>
chanVars == <<toChild, toParent>>
childVars == <<childLoaded, gen, shimReady, handlers, reloadTimer>>
storeVars == <<storeExists, store, rtDoc, flushPending>>
srvVars == <<srv, submissions>>
envVars == <<env, readies, loaded, firstDoc>>

mainVars == <<routerVars, ctlVars, uiVars, sessVars, chanVars, childVars,
              storeVars, srvVars, envVars>>
guardVars == <<dbs, guard, frame>>
adapterVars == <<idb, expected, canEnum, dbName, isReady, aops, conns, emitted,
                 checkTimer>>
kvVars == <<kv, wrote, restoredList, outcome>>
logVars == <<elog>>
shim3Vars == <<shim3>>
chainVars == <<chain>>
bootVars == <<boot>>
strayVars == <<stray>>
subModels ==
  <<guardVars, adapterVars, kvVars, logVars, shim3Vars, chainVars, bootVars>>
auxVars == <<subModels, strayVars>>
notGuard ==
  <<mainVars, adapterVars, kvVars, logVars, shim3Vars, chainVars, bootVars,
    strayVars>>
notAdapter ==
  <<mainVars, guardVars, kvVars, logVars, shim3Vars, chainVars, bootVars,
    strayVars>>
notStore ==
  <<mainVars, guardVars, adapterVars, logVars, shim3Vars, chainVars, bootVars,
    strayVars>>
notLog ==
  <<mainVars, guardVars, adapterVars, kvVars, shim3Vars, chainVars, bootVars,
    strayVars>>
notShim3 ==
  <<mainVars, guardVars, adapterVars, kvVars, logVars, chainVars, bootVars,
    strayVars>>
notChain ==
  <<mainVars, guardVars, adapterVars, kvVars, logVars, shim3Vars, bootVars,
    strayVars>>
notBoot ==
  <<mainVars, guardVars, adapterVars, kvVars, logVars, shim3Vars, chainVars,
    strayVars>>
vars == <<mainVars, auxVars>>

\* ------------------------------------------------------------------------
\* Event log (bridge.js logEvent)
\* ------------------------------------------------------------------------
logEventUnbounded(log, type) == Append(log, type)
logEvent(log, type) ==
  LET pushed == Append(log, type)
  IN IF Len(pushed) > MAX_EVENTS THEN Tail(pushed) ELSE pushed

\* ------------------------------------------------------------------------
\* Initial states
\* ------------------------------------------------------------------------
\* What Zest.loadState() can hand to a session: nothing (first visit), or a
\* SessionState that an earlier session saved or submitted.
NoSaved == [has |-> FALSE, st |-> InitialState, events |-> <<>>]
SavedStates ==
  { NoSaved,
    [has |-> TRUE, events |-> <<"session_start">>,
     st |-> [InitialState EXCEPT !.notebook = DocA]],
    [has |-> TRUE, events |-> <<"session_start">>,
     st |-> [InitialState EXCEPT !.files = <<FILE_X>>]],
    [has |-> TRUE, events |-> <<"session_start", "submission">>,
     st |-> [notebook |-> DocA, files |-> <<FILE_X>>, timeSpent |-> 1,
             interactions |-> 1, cellExecutions |-> 1, submitted |-> TRUE]] }

\* The bundle an earlier session's submission left on the server.
Bundle(nb, files, log, s, sess) ==
  [notebook |-> nb, files |-> files, events |-> log,
   timeSpent |-> s.timeSpent, cellExecutions |-> s.cellExecutions,
   interactions |-> s.interactions,
   cellCount |-> IF Truthy(nb) THEN nb.cells ELSE 0,
   fileCount |-> Len(files),
   result |-> "pending", own |-> sess]

EarlierSubmissions(saved) ==
  IF saved.st.submitted
  THEN << [Bundle(saved.st.notebook, saved.st.files, saved.events, saved.st, FALSE)
            EXCEPT !.result = "ok"] >>
  ELSE <<>>

\* The store a previous occupant of the device may have left behind.
EmptyStore == [nb |-> Null, files |-> {}]
StaleStore == [nb |-> DocB, files |-> {FILE_Y}]

MainInit ==
  /\ zestAvailable \in BOOLEAN
  /\ srv \in (IF zestAvailable THEN SavedStates ELSE {NoSaved})
  /\ submissions = EarlierSubmissions(srv)
  /\ storeExists \in BOOLEAN
  /\ store = IF storeExists THEN StaleStore ELSE EmptyStore
  \* bridge.js 30-53, then init(): with Zest the page waits for onReady,
  \* without it init() runs setupUI, loadJupyterLite, startTimeTracking
  /\ phase = IF zestAvailable THEN "waitZest" ELSE "guard"
  /\ timeTimer = ~zestAvailable
  /\ isReview = FALSE
  /\ st = InitialState
  /\ events = <<>>
  /\ saveTimer = FALSE
  /\ autoSaveTimers = 0
  /\ extensionReady = FALSE
  /\ stateRestored = FALSE
  /\ requestId = 0
  /\ pending = {}
  /\ timeouts = {}
  /\ reqs = <<>>
  /\ ops = <<>>
  /\ btnDisabled = FALSE
  /\ dialogVisible = FALSE
  /\ toChild = <<>>
  /\ toParent = <<>>
  /\ childLoaded = FALSE
  /\ gen = 0
  /\ shimReady = FALSE
  /\ handlers = {}
  /\ reloadTimer = FALSE
  /\ rtDoc = Null
  /\ flushPending = FALSE
  /\ env = 0
  /\ readies = 0
  /\ loaded = InitialState
  /\ firstDoc = Null

\* The isolation guard before loadJupyterLite calls it.
GuardIdle ==
  [pc |-> "start", reported |-> {}, remaining |-> 0, inflight |-> {},
   blocked |-> {}, timer |-> FALSE, resolved |-> FALSE]
FrameIdle == [loaded |-> FALSE, atLoad |-> {}]
GuardAtRest ==
  /\ dbs = {}
  /\ guard = GuardIdle
  /\ frame = FrameIdle

\* The storage adapter of the v3.1 shim (part_004) before the shim is loaded.
MaxOps == 2
Slots == 1..MaxOps
AdapterNames == {"JupyterLite Storage", "JupyterLite Storage - lab"}
\* _dbName = null
NoName == "none"
\* capabilities of the `ready` notification (561-564)
Capabilities ==
  <<"getNotebook", "loadNotebook", "save", "getStatus", "runAll",
    "clearOutputs", "getFiles", "loadFiles">>

\* An operation of the adapter.
\*   kind     discover (discoverDatabaseName alone), get (readItem),
\*            put (writeItem), list (getAllKeys, getAllItems)
\*   by       parent (a request of the wrapper) or ready (checkReady)
\*   cands    the candidate names still to probe
\*   name     the store name the operation works on
\*   hadConn  the platform has handed it a connection
\*   how      how it settled; "ok" is the only resolution
\*   val      the request found a value
IdleOp ==
  [kind |-> "none", by |-> "none", pc |-> "idle", cands |-> <<>>,
   name |-> NoName, hadConn |-> FALSE, how |-> "none", val |-> FALSE]

AdapterAtRest ==
  /\ idb = [n \in AdapterNames |-> "absent"]
  /\ expected = [n \in AdapterNames |-> "absent"]
  /\ canEnum = TRUE
  /\ dbName = NoName
  /\ isReady = FALSE
  /\ aops = [s \in Slots |-> IdleOp]
  /\ conns = {}
  /\ emitted = <<>>
  /\ checkTimer = FALSE

\* The `files` collection of the runtime's store, entry by entry, as the
\* shim's store functions see it.
NOTEBOOK_PATH == "assignment.ipynb"
\* The keys of the collection in the order of a cursor (ascending).
KeyOrder ==
  <<".ipynb_checkpoints", ".ipynb_checkpoints/assignment.ipynb",
    "assignment.ipynb", "data.csv", "img", "img/plot.png">>
StoreKeys == SeqToSet(KeyOrder)
\* A content: null, a Document (an object) or a string.
NullContent == [isNull |-> TRUE, doc |-> Null, text |-> ""]
DocContent(D) == [isNull |-> FALSE, doc |-> D, text |-> ""]
TextContent(t) == [isNull |-> FALSE, doc |-> Null, text |-> t]
\* No entry at a key (request.result is undefined).
NoEntry ==
  [present |-> FALSE, path |-> "", name |-> "", type |-> "", format |-> "",
   mimetype |-> "", content |-> NullContent]
EmptyCollection == [k \in StoreKeys |-> NoEntry]
NoWrite == [valid |-> FALSE, doc |-> Null]
NoList == [valid |-> FALSE, list |-> <<>>]
NoOutcome == [op |-> "none", doc |-> Null, list |-> <<>>]
StoreAtRest ==
  /\ kv = EmptyCollection
  /\ wrote = NoWrite
  /\ restoredList = NoList
  /\ outcome = NoOutcome

\* The event log looked at on its own: the length it started with, the
\* number of logEvent calls, the log.
LogAtRest == elog = [start |-> 0, appended |-> 0, ring |-> <<>>]
\* The v3 shim before its first store operation: the stores of the platform,
\* the upgrades of the runtime that wait for connections to close, the
\* upgrades done, _db / _dbName, the connections the shim has open, the
\* operation under way.
\* operation under way: the name being opened, the names tryNextCandidate
\* still holds, the names indexedDB.databases() returned, the names opened.
IdleOp3 ==
  [pc |-> "idle", name |-> NoName, cands |-> <<>>, seen |-> <<>>,
   probed |-> {}, how |-> "none"]
Shim3AtRest ==
  shim3 = [idb |-> [n \in AdapterNames |-> "absent"], waiting |-> {},
           upgraded |-> {}, db |-> NoName, open |-> {}, op |-> IdleOp3]
\* restoreFilesToDB has not been called: the files it was given, the writes
\* its chain still holds, the writes done in their order, how it settled.
ChainAtRest ==
  chain = [given |-> <<>>, todo |-> <<>>, written |-> <<>>, how |-> "none"]
\* The script of the parent page has been evaluated and init() has not run:
\* whether the page has the frame element and Zest, the 5 s fallback timer,
\* _readyFired, whether the server has called back, review mode, the
\* loadState promise, and what start-up has done so far: message listeners
\* added, setupUI calls, clearJupyterLiteStorage calls and how many of them
\* are unresolved, iframe loads, the 60 s timers that wait for the
\* extension, _extensionReady, time-tracking intervals, _state.timeSpent.
BootIdle ==
  [pc |-> "script", hasFrame |-> TRUE, zest |-> FALSE, registered |-> FALSE,
   fallback |-> FALSE, readyFired |-> FALSE, called |-> FALSE,
   review |-> FALSE, loadState |-> "none", listeners |-> 0, ui |-> 0,
   guards |-> 0, clearing |-> 0, loads |-> 0, readyTimers |-> 0,
   extensionReady |-> FALSE, tickers |-> 0, timeSpent |-> 0]
BootAtRest == boot = BootIdle
\* No envelope from outside the protocol has been delivered.
NoStray == stray = [n |-> 0, to |-> "none", type |-> "none", source |-> "none"]
AuxIdle ==
  /\ GuardAtRest /\ AdapterAtRest /\ StoreAtRest /\ LogAtRest /\ Shim3AtRest
  /\ ChainAtRest /\ BootAtRest
  /\ NoStray

Init == MainInit /\ AuxIdle

\* setupUI has run: the Save and Submit controls have their handlers.
uiReady == phase \in {"guard", "running"}

\* ------------------------------------------------------------------------
\* init(): Zest.onReady, Zest.loadState, loadJupyterLite
\* ------------------------------------------------------------------------
LatestSubmission ==
  IF submissions = <<>> THEN Null ELSE submissions[Len(submissions)].notebook

\* Zest.onReady(context): review sessions load the submitted notebook and go
\* straight to loadJupyterLite; student sessions call Zest.loadState().
ZestOnReady ==
  /\ phase = "waitZest"
  /\ \E review \in BOOLEAN :
       /\ isReview' = review
       /\ IF review
          THEN /\ st' = IF Truthy(LatestSubmission)
                        THEN [st EXCEPT !.notebook = LatestSubmission] ELSE st
               /\ phase' = "guard"
          ELSE /\ st' = st
               /\ phase' = "loadState"
  /\ loaded' = st'
  /\ UNCHANGED <<zestAvailable, events, saveTimer, timeTimer, autoSaveTimers,
                 extensionReady, stateRestored, routerVars, uiVars, chanVars,
                 childVars, storeVars, srvVars, env, readies, firstDoc>>
  /\ UNCHANGED auxVars

\* The submitted flag a student session starts with (init 637-639).
FlagKept(saved) == saved.submitted
SessionStartFlag(saved) == FALSE

\* Zest.loadState() settles: the saved state replaces _state and _events, the
\* submitted flag is reset, the session start is logged, time tracking starts.
LoadStateDone ==
  /\ phase = "loadState"
  /\ \E ok \in BOOLEAN :
       LET found == ok /\ srv.has
           st0 == IF found THEN srv.st ELSE st
           ev0 == IF found THEN srv.events ELSE events
       IN /\ st' = IF ok THEN [st0 EXCEPT !.submitted = SessionStartFlag(st0)] ELSE st0
          /\ events' = logEvent(ev0, "session_start")
          /\ loaded' = st0
  /\ timeTimer' = TRUE
  /\ phase' = "guard"
  /\ UNCHANGED <<zestAvailable, isReview, saveTimer, autoSaveTimers,
                 extensionReady, stateRestored, routerVars, uiVars, chanVars,
                 childVars, storeVars, srvVars, env, readies, firstDoc>>
  /\ UNCHANGED auxVars

\* What the runtime shows when the child context starts: the Document in the
\* store if there is one, else the notebook bundled with the content package.
RuntimeOpen(exists, s) == IF exists /\ Truthy(s.nb) THEN s.nb ELSE Template

\* loadJupyterLite: clearJupyterLiteStorage() resolves (the stores deleted, or
\* not: enumeration unsupported, deletion blocked, safety timeout), then the
\* iframe source is set and the child context starts.
GuardDone ==
  /\ phase = "guard"
  /\ \E cleared \in BOOLEAN :
       /\ storeExists' = (storeExists /\ ~cleared)
       /\ store' = IF cleared THEN EmptyStore ELSE store
       /\ rtDoc' = RuntimeOpen(storeExists /\ ~cleared, store)
  /\ phase' = "running"
  /\ childLoaded' = TRUE
  /\ gen' = gen + 1
  /\ UNCHANGED <<zestAvailable, isReview, ctlVars, routerVars, uiVars, chanVars,
                 shimReady, handlers, reloadTimer, flushPending, srvVars, envVars>>
  /\ UNCHANGED auxVars

\* setInterval of startTimeTracking
Tick ==
  /\ timeTimer
  /\ env < MaxEnv
  /\ env' = env + 1
  /\ st' = [st EXCEPT !.timeSpent = @ + 1]
  /\ UNCHANGED <<events, saveTimer, timeTimer, autoSaveTimers, extensionReady,
                 stateRestored, routerVars, uiVars, sessVars, chanVars, childVars,
                 storeVars, srvVars, readies, loaded, firstDoc>>
  /\ UNCHANGED auxVars

\* ------------------------------------------------------------------------
\* Request router (bridge.js sendToExtension, handleMessage 119-124)
\* ------------------------------------------------------------------------
\* sendToExtension for each entry of `list` ([action, data]) in order; the
\* promises are consumed together by a continuation of kind `kind`
\* ("save", "submit", "restore").  A message posted while no child context
\* is loaded reaches nobody.
NewReq(list, kind, i) ==
  [action |-> list[i].action, kind |-> kind, op |-> Len(ops) + 1,
   peer |-> IF Len(list) = 2 THEN requestId + (3 - i) ELSE 0,
   status |-> "pending", val |-> NoData, got |-> 0, settles |-> 0]

NewMsgNumberedPerCall(list, i) ==
  [action |-> list[i].action, requestId |-> i, data |-> list[i].data]
NewMsg(list, i) ==
  [action |-> list[i].action, requestId |-> requestId + i, data |-> list[i].data]

sendToExtension(list, kind) ==
  /\ requestId + Len(list) <= MaxReq
  /\ requestId' = requestId + Len(list)
  /\ pending' = pending \cup ((requestId + 1)..(requestId + Len(list)))
  /\ timeouts' = timeouts \cup ((requestId + 1)..(requestId + Len(list)))
  /\ reqs' = reqs \o [i \in 1..Len(list) |-> NewReq(list, kind, i)]
  /\ ops' = Append(ops, [kind |-> kind, calls |-> 0, bundles |-> 0])
  /\ toChild' = IF childLoaded
                THEN toChild \o [i \in 1..Len(list) |-> NewMsg(list, i)]
                ELSE toChild

Ask(action) == [action |-> action, data |-> EmptyData]

\* ------------------------------------------------------------------------
\* saveState (bridge.js 236-271): the entry, and the Promise.all reaction
\* ------------------------------------------------------------------------
\* The entry.  Without Zest, or in review, saveState returns at once.
saveStateEnters == zestAvailable /\ ~isReview

saveState ==
  IF saveStateEnters
  THEN sendToExtension(<<Ask("getNotebook"), Ask("getFiles")>>, "save")
  ELSE UNCHANGED <<routerVars, toChild>>

\* _state after the two results are merged in (bridge.js 255-261).
MergeOverwrites(s, nbData, filesData) ==
  [s EXCEPT !.notebook = nbData.notebook, !.files = filesData.files]
MergeSaved(s, nbData, filesData) ==
  LET s1 == IF ~nbData.null /\ Truthy(nbData.notebook)
            THEN [s EXCEPT !.notebook = nbData.notebook,
                           !.cellExecutions =
                              IF nbData.executionCount # 0
                              THEN nbData.executionCount ELSE @]
            ELSE s
  IN IF ~filesData.null /\ filesData.hasFiles
     THEN [s1 EXCEPT !.files = filesData.files]
     ELSE s1

\* Zest.saveState(JSON.parse(JSON.stringify(_state))): a deep copy of _state,
\* whose events field is the _events array.
Persisted(s, log) == [has |-> TRUE, st |-> s, events |-> log]

\* ------------------------------------------------------------------------
\* Submission (bridge.js handleSubmission 420-447, doSubmit 449-513)
\* ------------------------------------------------------------------------
\* What the two .catch handlers of handleSubmission return on a timeout.
SubmitNotebookFallback(s) ==
  [EmptyData EXCEPT !.notebook = s.notebook,
                    !.cellCount = IF Truthy(s.notebook) THEN s.notebook.cells ELSE 0,
                    !.executionCount = s.cellExecutions]
SubmitFilesFallback(s) ==
  [EmptyData EXCEPT !.hasFiles = TRUE, !.files = s.files]

\* The files handed to doSubmit: filesData.files || _state.files || []
SubmitFiles(s, filesData) ==
  IF ~filesData.null /\ filesData.hasFiles THEN filesData.files ELSE s.files

\* The notebook doSubmit submits: (data && data.notebook) || _state.notebook
SubmitNotebook(s, nbData) ==
  IF ~nbData.null /\ Truthy(nbData.notebook) THEN nbData.notebook ELSE s.notebook

\* stats.cellCount of the bundle (bridge.js 486)
ShimCellCount(nb, nbData) == nbData.cellCount
StatsCellCount(nb, nbData) == IF Truthy(nb) THEN nb.cells ELSE 0

\* The submitted flag doSubmit writes before it calls the server (459).
SubmittedMark == TRUE

\* _state as doSubmit leaves it (451-461).
SubmitState(s, nbData, filesData) ==
  [s EXCEPT !.notebook = SubmitNotebook(s, nbData),
            !.files = SubmitFiles(s, filesData),
            !.submitted = SubmittedMark]

SubmitBundle(s, log, nbData, filesData) ==
  LET nb == SubmitNotebook(s, nbData)
      files == SubmitFiles(s, filesData)
  IN [Bundle(nb, files, log, s, TRUE)
        EXCEPT !.cellCount = StatsCellCount(nb, nbData)]

\* ------------------------------------------------------------------------
\* Settling a request promise, with the reactions that run in the same task
\* ------------------------------------------------------------------------
\* The value a rejected request promise is turned into by its .catch
\* (saveState 242-249: null; handleSubmission 427-439: the in-memory state;
\* onExtensionReady 343, 362: nothing).
Caught(r) ==
  IF r.kind = "submit"
  THEN IF r.action = "getNotebook"
       THEN SubmitNotebookFallback(st) ELSE SubmitFilesFallback(st)
  ELSE NoData

\* The .then of one restore request (onExtensionReady 334-342, 355-361).
RestoreLogged(r, how, data) ==
  IF r.kind = "restore" /\ how = "resolved" /\ ~data.null /\ data.success
  THEN logEvent(events, IF r.action = "loadNotebook"
                        THEN "state_restored" ELSE "files_restored")
  ELSE events

\* The Promise.all reaction of onExtensionReady (370-375).
StartsWhateverWasRestored == ~isReview
StartsAutoSaveAfterRestore == ~isReview /\ ~Truthy(st.notebook)

\* resolve(data) or reject(): a promise takes its first settlement only, and
\* when the last promise of a Promise.all settles its reaction runs.
Settle(id, how, data) ==
  LET r == reqs[id]
      fresh == r.status = "pending"
      val == IF how = "resolved" THEN data ELSE Caught(r)
      done == fresh /\ (r.peer = 0 \/ reqs[r.peer].status # "pending")
      \* a settled value is kept until the Promise.all reaction has used it
      reqs1 == [i \in 1..Len(reqs) |->
                  IF i = id
                  THEN IF fresh
                       THEN [r EXCEPT !.status = how, !.got = data.re,
                                      !.val = IF done THEN NoData ELSE val,
                                      !.settles = @ + 1]
                       ELSE [r EXCEPT !.settles = @ + 1]
                  ELSE IF done /\ i = r.peer
                       THEN [reqs[i] EXCEPT !.val = NoData]
                       ELSE reqs[i]]
      ev1 == IF fresh THEN RestoreLogged(r, how, data) ELSE events
      first == r.action \in {"getNotebook", "loadNotebook"}
      other == IF r.peer = 0 THEN NoData ELSE reqs[r.peer].val
      nbData == IF first THEN val ELSE other
      filesData == IF first THEN other ELSE val
      opDone(calls, bundles) ==
        [ops EXCEPT ![r.op] = [@ EXCEPT !.calls = @ + calls, !.bundles = @ + bundles]]
  IN /\ reqs' = reqs1
     /\ CASE done /\ r.kind = "save" ->
               /\ st' = MergeSaved(st, nbData, filesData)
               /\ events' = ev1
               /\ srv' = Persisted(st', events')
               /\ ops' = opDone(1, 0)
               /\ UNCHANGED <<autoSaveTimers, submissions>>
          [] done /\ r.kind = "submit" ->
               /\ st' = SubmitState(st, nbData, filesData)
               /\ events' = logEvent(ev1, "submission")
               /\ IF zestAvailable
                  THEN /\ srv' = Persisted(st', events')
                       /\ submissions' =
                            Append(submissions,
                                   SubmitBundle(st, events', nbData, filesData))
                       /\ ops' = opDone(1, 1)
                  ELSE UNCHANGED <<srv, submissions, ops>>
               /\ UNCHANGED autoSaveTimers
          [] done /\ r.kind = "restore" ->
               /\ autoSaveTimers' =
                    IF StartsAutoSaveAfterRestore
                    THEN autoSaveTimers + 1 ELSE autoSaveTimers
               /\ events' = ev1
               /\ UNCHANGED <<st, srv, submissions, ops>>
          [] OTHER ->
               /\ events' = ev1
               /\ UNCHANGED <<st, autoSaveTimers, srv, submissions, ops>>

\* msg.requestId && _pendingRequests[msg.requestId] (120)
IsIssuedId(msg) == msg.requestId # 0 /\ msg.requestId <= requestId
IsPendingReply(msg) == msg.requestId # 0 /\ msg.requestId \in pending

\* The pending entry a message with request id `rid` invokes (120-121).
OldestPending(rid) == CHOOSE i \in pending : \A j \in pending : i <= j
Callback(rid) == rid

\* clearTimeout(timeout) in the pending callback (92).
TimerLeftArmed(ts, id) == ts
ClearTimeout(ts, id) == ts \ {id}

\* A request is on its way while its message, its handler or its reply exists.
OnItsWay(id) ==
  \/ \E i \in 1..Len(toChild) : toChild[i].requestId = id
  \/ \E h \in handlers : h.id = id
  \/ \E i \in 1..Len(toParent) : toParent[i].requestId = id

\* The timeout callback of sendToExtension (86-89).  A request that is lost
\* always times out; a child that needs more than 10 s for a request it
\* will answer is an environment event.
Timeout(id) ==
  /\ id \in timeouts
  /\ IF OnItsWay(id) THEN env < MaxEnv /\ env' = env + 1 ELSE env' = env
  /\ timeouts' = timeouts \ {id}
  /\ pending' = pending \ {id}
  /\ Settle(id, "rejected", NoData)
  /\ UNCHANGED <<requestId, saveTimer, timeTimer, extensionReady, stateRestored,
                 uiVars, sessVars, chanVars, childVars, storeVars, readies, loaded,
                 firstDoc>>
  /\ UNCHANGED auxVars

RequestTimeout == \E id \in timeouts : Timeout(id)

\* ------------------------------------------------------------------------
\* handleMessage (bridge.js 113-168) and onExtensionReady (308-376)
\* ------------------------------------------------------------------------
RestoreRequests ==
  (IF Truthy(st.notebook)
   THEN << [action |-> "loadNotebook",
            data |-> [EmptyData EXCEPT !.notebook = st.notebook]] >>
   ELSE <<>>)
  \o
  (IF Len(st.files) > 0
   THEN << [action |-> "loadFiles",
            data |-> [EmptyData EXCEPT !.hasFiles = TRUE, !.files = st.files]] >>
   ELSE <<>>)

\* The restoration flag after onExtensionReady (316, 328).
RestoredFlagNeverSet == stateRestored
RestoredFlag == stateRestored \/ Truthy(st.notebook)

onExtensionReady ==
  /\ events' = logEvent(events, "extension_ready")
  /\ readies' = readies + 1
  /\ firstDoc' = IF readies = 0 THEN st.notebook ELSE firstDoc
  /\ stateRestored' = RestoredFlag
  /\ IF stateRestored
     THEN /\ autoSaveTimers' = IF ~isReview THEN autoSaveTimers + 1 ELSE autoSaveTimers
          /\ UNCHANGED <<routerVars, toChild>>
     ELSE IF RestoreRequests = <<>>
     THEN /\ autoSaveTimers' =
               IF StartsAutoSaveAfterRestore
               THEN autoSaveTimers + 1 ELSE autoSaveTimers
          /\ UNCHANGED <<routerVars, toChild>>
     ELSE /\ sendToExtension(RestoreRequests, "restore")
          /\ UNCHANGED autoSaveTimers
  /\ UNCHANGED <<st, srv, submissions, saveTimer, env, loaded>>

\* A message that is not the reply to a pending request.
Notification(msg) ==
  CASE msg.action = "ready" ->
         /\ extensionReady' = TRUE
         /\ onExtensionReady
    [] msg.action = "cellExecutionScheduled" ->
         /\ events' = logEvent(events, "cell_exec_scheduled")
         /\ st' = [st EXCEPT !.interactions = @ + 1]
         /\ UNCHANGED <<routerVars, toChild, autoSaveTimers, extensionReady,
                        stateRestored, saveTimer, srvVars, envVars>>
    [] msg.action = "cellExecuted" ->
         /\ events' = logEvent(events, "cell_executed")
         /\ st' = [st EXCEPT !.interactions = @ + 1,
                             !.cellExecutions =
                                IF msg.data.executionCount # 0
                                THEN msg.data.executionCount ELSE @ + 1]
         /\ saveTimer' = TRUE
         /\ UNCHANGED <<routerVars, toChild, autoSaveTimers, extensionReady,
                        stateRestored, srvVars, envVars>>
    [] msg.action = "notebookOpened" ->
         /\ events' = logEvent(events, "notebook_opened")
         /\ UNCHANGED <<st, routerVars, toChild, autoSaveTimers, extensionReady,
                        stateRestored, saveTimer, srvVars, envVars>>
    [] msg.action = "dirty" ->
         /\ st' = IF msg.data.isDirty THEN [st EXCEPT !.interactions = @ + 1] ELSE st
         /\ UNCHANGED <<events, routerVars, toChild, autoSaveTimers, extensionReady,
                        stateRestored, saveTimer, srvVars, envVars>>
    [] OTHER ->
         UNCHANGED <<st, events, routerVars, toChild, autoSaveTimers,
                     extensionReady, stateRestored, saveTimer, srvVars, envVars>>

\* The reply branch: the pending callback clears its timer and resolves.
Reply(msg) ==
  /\ pending' = pending \ {msg.requestId}
  /\ timeouts' = ClearTimeout(timeouts, Callback(msg.requestId))
  /\ Settle(Callback(msg.requestId), "resolved", msg.data)
  /\ UNCHANGED <<requestId, toChild, extensionReady, stateRestored, saveTimer,
                 envVars>>

handleMessage ==
  /\ toParent # <<>>
  /\ LET msg == Head(toParent)
     IN IF IsPendingReply(msg)
        THEN Reply(msg)
        ELSE Notification(msg)
  /\ toParent' = Tail(toParent)
  /\ UNCHANGED <<timeTimer, uiVars, sessVars, childVars, storeVars>>
  /\ UNCHANGED auxVars

\* ------------------------------------------------------------------------
\* Timers and controls of the parent page
\* ------------------------------------------------------------------------
\* The debounce timer of debouncedSave fires (229-234).
DebounceFire ==
  /\ saveTimer
  /\ saveTimer' = FALSE
  /\ saveState
  /\ UNCHANGED <<st, events, timeTimer, autoSaveTimers, extensionReady,
                 stateRestored, uiVars, sessVars, toParent, childVars, storeVars,
                 srvVars, envVars>>
  /\ UNCHANGED auxVars

\* One of the setInterval callbacks of startAutoSave fires (292-298).
AutoSaveFire ==
  /\ phase # "closed"
  /\ autoSaveTimers > 0
  /\ extensionReady
  /\ saveStateEnters
  /\ saveState
  /\ UNCHANGED <<ctlVars, uiVars, sessVars, toParent, childVars, storeVars,
                 srvVars, envVars>>
  /\ UNCHANGED auxVars

\* Click on the Save control (setupUI 521-526); hidden in review.
SaveClick ==
  /\ uiReady /\ ~isReview
  /\ saveStateEnters
  /\ saveState
  /\ UNCHANGED <<ctlVars, uiVars, sessVars, toParent, childVars, storeVars,
                 srvVars, envVars>>
  /\ UNCHANGED auxVars

\* Click on the Submit control (529-536): opens the confirmation dialog.
\* A disabled button receives no click.
SubmitClick ==
  /\ uiReady /\ ~isReview
  /\ ~btnDisabled
  /\ ~dialogVisible
  /\ dialogVisible' = TRUE
  /\ UNCHANGED <<btnDisabled, routerVars, ctlVars, sessVars, chanVars, childVars,
                 storeVars, srvVars, envVars>>
  /\ UNCHANGED auxVars

\* Cancel in the dialog (539-545).
CancelClick ==
  /\ dialogVisible
  /\ dialogVisible' = FALSE
  /\ UNCHANGED <<btnDisabled, routerVars, ctlVars, sessVars, chanVars, childVars,
                 storeVars, srvVars, envVars>>
  /\ UNCHANGED auxVars

\* Confirm in the dialog (547-554): handleSubmission (420-447).
ConfirmClick ==
  /\ dialogVisible
  /\ dialogVisible' = FALSE
  /\ btnDisabled' = TRUE
  /\ sendToExtension(<<Ask("getNotebook"), Ask("getFiles")>>, "submit")
  /\ UNCHANGED <<ctlVars, sessVars, toParent, childVars, storeVars, srvVars,
                 envVars>>
  /\ UNCHANGED auxVars

\* Zest.submitWork settles for a submission of this session (490-512): on
\* success the button stays disabled, on failure or rejection it is enabled.
SubmitEnables(result) == result # "ok"

SubmitResult ==
  \E i \in 1..Len(submissions) :
    /\ submissions[i].own
    /\ submissions[i].result = "pending"
    /\ \E result \in {"ok", "fail", "reject"} :
         /\ submissions' = [submissions EXCEPT ![i].result = result]
         /\ btnDisabled' = ~SubmitEnables(result)
    /\ UNCHANGED <<dialogVisible, srv, routerVars, ctlVars, sessVars, chanVars,
                   childVars, storeVars, envVars>>
    /\ UNCHANGED auxVars

\* ------------------------------------------------------------------------
\* The child context: the runtime and its store
\* ------------------------------------------------------------------------
\* The runtime creates its store (with the `files` collection) while it starts.
RuntimeInit ==
  /\ childLoaded
  /\ ~storeExists
  /\ storeExists' = TRUE
  /\ store' = EmptyStore
  /\ UNCHANGED <<rtDoc, flushPending, routerVars, ctlVars, uiVars, sessVars,
                 chanVars, childVars, srvVars, envVars>>
  /\ UNCHANGED auxVars

\* The student edits the notebook in the runtime (in memory).
RuntimeEdit ==
  /\ childLoaded
  /\ env < MaxEnv
  /\ env' = env + 1
  /\ \E d \in Docs \ {rtDoc} : rtDoc' = d
  /\ UNCHANGED <<storeExists, store, flushPending, routerVars, ctlVars, uiVars,
                 sessVars, chanVars, childVars, srvVars, readies, loaded,
                 firstDoc>>
  /\ UNCHANGED auxVars

\* The student uploads a file: the runtime writes it to the store.
RuntimeUpload ==
  /\ childLoaded /\ storeExists
  /\ env < MaxEnv
  /\ env' = env + 1
  /\ store' = [store EXCEPT !.files = @ \cup {FILE_X}]
  /\ UNCHANGED <<storeExists, rtDoc, flushPending, routerVars, ctlVars, uiVars,
                 sessVars, chanVars, childVars, srvVars, readies, loaded,
                 firstDoc>>
  /\ UNCHANGED auxVars

\* The runtime handles the Ctrl+S that triggerSave dispatched: it writes its
\* in-memory Document to the store.
RuntimeFlush ==
  /\ childLoaded /\ storeExists
  /\ flushPending
  /\ flushPending' = FALSE
  /\ store' = [store EXCEPT !.nb = rtDoc]
  /\ UNCHANGED <<storeExists, rtDoc, routerVars, ctlVars, uiVars, sessVars,
                 chanVars, childVars, srvVars, envVars>>
  /\ UNCHANGED auxVars

\* The bridge extension reports notebook activity (unsolicited, no requestId).
ExtensionNotes ==
  { [action |-> "cellExecuted", requestId |-> 0,
     data |-> [EmptyData EXCEPT !.executionCount = 1, !.success = TRUE]],
    [action |-> "cellExecutionScheduled", requestId |-> 0, data |-> EmptyData],
    [action |-> "notebookOpened", requestId |-> 0,
     data |-> [EmptyData EXCEPT !.cellCount = 1]],
    [action |-> "dirty", requestId |-> 0,
     data |-> [EmptyData EXCEPT !.isDirty = TRUE]],
    [action |-> "kernelStatus", requestId |-> 0, data |-> EmptyData] }

ExtensionNotify ==
  /\ childLoaded
  /\ env < MaxEnv
  /\ env' = env + 1
  /\ \E m \in ExtensionNotes : toParent' = Append(toParent, m)
  /\ UNCHANGED <<toChild, routerVars, ctlVars, uiVars, sessVars, childVars,
                 storeVars, srvVars, readies, loaded, firstDoc>>
  /\ UNCHANGED auxVars

\* ------------------------------------------------------------------------
\* The child context: bridge-shim v3.1 (part_004)
\* ------------------------------------------------------------------------
\* sendToWrapper(action, data, requestId) (34-45)
EnvelopeWithoutId(action, data, rid) ==
  [action |-> action, requestId |-> 0, data |-> [data EXCEPT !.re = 0]]
Envelope(action, data, rid) ==
  [action |-> action, requestId |-> rid, data |-> [data EXCEPT !.re = rid]]

\* countExecutions (530-537)
countExecutions(nb) == IF Truthy(nb) THEN nb.execs ELSE 0

\* checkReady (543-585): discovery has succeeded for the first time in this
\* child context; `ready` is posted whether or not the notebook read succeeds.
ShimCheckReady ==
  /\ childLoaded /\ ~shimReady
  /\ storeExists
  /\ shimReady' = TRUE
  /\ toParent' = Append(toParent, Envelope("ready", EmptyData, 0))
  /\ UNCHANGED <<toChild, childLoaded, gen, handlers, reloadTimer, routerVars,
                 ctlVars, uiVars, sessVars, storeVars, srvVars, envVars>>
  /\ UNCHANGED auxVars

\* The message listener (396-525) takes the next message of the parent.
\* getNotebook / save / getFiles: triggerSave, then a 1500 ms timer.
\* loadNotebook without a notebook and loadFiles without files answer at once,
\* and so do runAll and clearOutputs; getStatus, loadNotebook and loadFiles
\* start a store operation; an action outside the switch does nothing.
Listener(msg) ==
  LET h == [id |-> msg.requestId, action |-> msg.action,
            notebook |-> msg.data.notebook, todo |-> msg.data.files, count |-> Len(msg.data.files)]
  IN CASE msg.action \in {"getNotebook", "save", "getFiles"} ->
            /\ flushPending' = TRUE
            /\ handlers' = handlers \cup {h}
            /\ UNCHANGED toParent
       [] msg.action = "loadNotebook" /\ ~Truthy(msg.data.notebook) ->
            /\ toParent' = Append(toParent,
                  Envelope("notebookLoaded", EmptyData, msg.requestId))
            /\ UNCHANGED <<flushPending, handlers>>
       [] msg.action = "loadFiles" /\ msg.data.files = <<>> ->
            /\ toParent' = Append(toParent,
                  Envelope("filesLoaded", [EmptyData EXCEPT !.success = TRUE],
                           msg.requestId))
            /\ UNCHANGED <<flushPending, handlers>>
       [] msg.action \in {"runAll", "clearOutputs"} ->
            /\ toParent' = Append(toParent,
                  Envelope(IF msg.action = "runAll" THEN "runAllComplete"
                           ELSE "outputsCleared",
                           [EmptyData EXCEPT !.success = TRUE], msg.requestId))
            /\ UNCHANGED <<flushPending, handlers>>
       [] msg.action \in {"getStatus", "loadNotebook", "loadFiles"} ->
            /\ handlers' = handlers \cup {h}
            /\ UNCHANGED <<flushPending, toParent>>
       [] OTHER -> UNCHANGED <<flushPending, handlers, toParent>>

ShimReceive ==
  /\ childLoaded
  /\ toChild # <<>>
  /\ toChild' = Tail(toChild)
  /\ Listener(Head(toChild))
  /\ UNCHANGED <<childLoaded, gen, shimReady, reloadTimer, storeExists, store, rtDoc,
                 routerVars, ctlVars, uiVars, sessVars, srvVars, envVars>>
  /\ UNCHANGED auxVars

\* getNotebookFromDB (285-294) and the reply of the getNotebook case (406-421)
NotebookContent(exists, s, rid) ==
  IF exists
  THEN Envelope("notebookContent",
                [EmptyData EXCEPT !.notebook = s.nb,
                                  !.cellCount = IF Truthy(s.nb) THEN s.nb.cells ELSE 0,
                                  !.executionCount = countExecutions(s.nb)], rid)
  ELSE Envelope("notebookContent", [EmptyData EXCEPT !.error = TRUE], rid)

\* getAllFilesFromDB (313-338) and the reply of the getFiles case (498-505)
FilesContent(exists, s, rid) ==
  IF exists
  THEN Envelope("filesContent",
                [EmptyData EXCEPT !.hasFiles = TRUE, !.files = SortedSeq(s.files)], rid)
  ELSE Envelope("filesContent",
                [EmptyData EXCEPT !.hasFiles = TRUE, !.error = TRUE], rid)

\* The timer of a getNotebook / getFiles handler fires and the read completes.
ShimRead ==
  \E h \in handlers :
    /\ h.action \in {"getNotebook", "getFiles"}
    /\ handlers' = handlers \ {h}
    /\ toParent' = Append(toParent,
                          IF h.action = "getNotebook"
                          THEN NotebookContent(storeExists, store, h.id)
                          ELSE FilesContent(storeExists, store, h.id))
    /\ UNCHANGED <<toChild, childLoaded, gen, shimReady, reloadTimer, storeVars,
                   routerVars, ctlVars, uiVars, sessVars, srvVars, envVars>>
    /\ UNCHANGED auxVars

\* The reply of the save case (445-451): the Document and success, or a
\* failure without a Document.
Saved(exists, s, rid) ==
  IF exists
  THEN Envelope("saved", [EmptyData EXCEPT !.notebook = s.nb, !.success = TRUE], rid)
  ELSE Envelope("saved", [EmptyData EXCEPT !.error = TRUE], rid)

\* The reply of the getStatus case (456-476); success stands for appReady.
Status(exists, s, rid) ==
  Envelope("status", [EmptyData EXCEPT !.success = exists], rid)

\* The timer of a save handler fires, or the read of a getStatus handler
\* settles: the handler posts its reply.
ShimAnswer ==
  \E h \in handlers :
    /\ h.action \in {"save", "getStatus"}
    /\ handlers' = handlers \ {h}
    /\ toParent' = Append(toParent,
                          IF h.action = "save"
                          THEN Saved(storeExists, store, h.id)
                          ELSE Status(storeExists, store, h.id))
    /\ UNCHANGED <<toChild, childLoaded, gen, shimReady, reloadTimer, storeVars,
                   routerVars, ctlVars, uiVars, sessVars, srvVars, envVars>>
    /\ UNCHANGED auxVars

\* The cases of the listener that call window.location.reload() once their
\* write has succeeded (435).
ReloadsAfterAnyWrite(action) == action \in {"loadNotebook", "loadFiles"}
Reloads(action) == action = "loadNotebook"

\* saveNotebookToDB settles in the loadNotebook case (431-439): on success the
\* reply is posted and the reload is scheduled (500 ms).
ShimLoadNotebook ==
  \E h \in handlers :
    /\ h.action = "loadNotebook"
    /\ handlers' = handlers \ {h}
    /\ IF storeExists
       THEN /\ store' = [store EXCEPT !.nb = h.notebook]
            /\ toParent' = Append(toParent,
                  Envelope("notebookLoaded", [EmptyData EXCEPT !.success = TRUE], h.id))
            /\ reloadTimer' = (reloadTimer \/ Reloads(h.action))
       ELSE /\ toParent' = Append(toParent, Envelope("notebookLoaded", EmptyData, h.id))
            /\ UNCHANGED <<store, reloadTimer>>
    /\ UNCHANGED <<toChild, childLoaded, gen, shimReady, storeExists, rtDoc,
                   flushPending, routerVars, ctlVars, uiVars, sessVars, srvVars,
                   envVars>>
    /\ UNCHANGED auxVars

\* saveNotebookToDB rejects in the loadNotebook case (437-439) although the
\* store exists: the open request or the put request failed.  The failure
\* reply is posted and no reload is scheduled.
ShimLoadNotebookFails ==
  \E h \in handlers :
    /\ h.action = "loadNotebook"
    /\ storeExists
    /\ handlers' = handlers \ {h}
    /\ toParent' = Append(toParent, Envelope("notebookLoaded", EmptyData, h.id))
    /\ UNCHANGED <<toChild, childLoaded, gen, shimReady, reloadTimer, storeVars,
                   routerVars, ctlVars, uiVars, sessVars, srvVars, envVars>>
    /\ UNCHANGED auxVars

\* One file of restoreFilesToDB (340-390) is written; after the last one the
\* loadFiles case replies (515-522).  A failed write ends the chain.
ShimLoadFile ==
  \E h \in handlers :
    /\ h.action = "loadFiles"
    /\ IF storeExists
       THEN /\ store' = [store EXCEPT !.files = @ \cup {Head(h.todo)}]
            /\ IF Len(h.todo) = 1
               THEN /\ handlers' = handlers \ {h}
                    /\ toParent' = Append(toParent,
                          Envelope("filesLoaded",
                                   [EmptyData EXCEPT !.success = TRUE], h.id))
                    /\ reloadTimer' = (reloadTimer \/ Reloads(h.action))
               ELSE /\ handlers' = (handlers \ {h}) \cup {[h EXCEPT !.todo = Tail(@)]}
                    /\ UNCHANGED <<toParent, reloadTimer>>
       ELSE /\ handlers' = handlers \ {h}
            /\ toParent' = Append(toParent, Envelope("filesLoaded", EmptyData, h.id))
            /\ UNCHANGED <<store, reloadTimer>>
    /\ UNCHANGED <<toChild, childLoaded, gen, shimReady, storeExists,
                   rtDoc, flushPending, routerVars, ctlVars, uiVars, sessVars,
                   srvVars, envVars>>
    /\ UNCHANGED auxVars

\* window.location.reload() (435): the child context starts again; its
\* handlers, timers and undelivered messages are gone, the store stays.
ChildReload ==
  /\ reloadTimer
  /\ reloadTimer' = FALSE
  /\ gen' = gen + 1
  /\ shimReady' = FALSE
  /\ handlers' = {}
  /\ toChild' = <<>>
  /\ flushPending' = FALSE
  /\ rtDoc' = RuntimeOpen(storeExists, store)
  /\ UNCHANGED <<childLoaded, toParent, storeExists, store, routerVars, ctlVars,
                 uiVars, sessVars, srvVars, envVars>>
  /\ UNCHANGED auxVars

\* Any script of the child frame can post an envelope with the protocol tag:
\* handleMessage (113-117) accepts it whatever its action and requestId are.
ForeignEnvelope ==
  /\ childLoaded
  /\ env < MaxEnv
  /\ env' = env + 1
  /\ \E a \in {"ready", "cellExecuted", "cellExecutionScheduled", "notebookOpened",
               "dirty", "kernelStatus", "notebookContent", "saved"},
        rid \in 1..MaxReq :
       toParent' = Append(toParent,
          [action |-> a, requestId |-> rid,
           data |-> [EmptyData EXCEPT !.isDirty = TRUE, !.re = rid]])
  /\ UNCHANGED <<toChild, routerVars, ctlVars, uiVars, sessVars, childVars,
                 storeVars, srvVars, readies, loaded, firstDoc>>
  /\ UNCHANGED auxVars

\* ------------------------------------------------------------------------
\* Envelopes from outside the protocol
\* ------------------------------------------------------------------------
\* msg.type !== 'zest-jupyter'
TAG == "zest-jupyter"
\* bridge.js 113-117: the sender is the child frame's window and the tag is
\* the protocol's.
ParentAccepts(e) == e.source = "childFrame" /\ e.type = TAG
\* part_004 396-398 (bridge-shim.js 422-424): the tag is the protocol's.
ShimAccepts(e) == e.type = TAG
\* The envelopes that do not come from the protocol's counterpart with the
\* protocol's tag.
Outsiders(counterpart) ==
  {e \in [type : {TAG, "other-app"},
          source : {counterpart, "elsewhere"}] :
     e.type # TAG \/ e.source # counterpart}
Delivered(to, e) ==
  stray' = [n |-> stray.n + 1, to |-> to, type |-> e.type, source |-> e.source]

\* A window posts an envelope to the parent page: the listener of the parent
\* (handleMessage) runs on it.
ParentStray ==
  /\ phase = "running"
  /\ env < MaxEnv
  /\ env' = env + 1
  /\ \E e \in Outsiders("childFrame"),
        m \in {[action |-> "ready", requestId |-> 1,
                data |-> [EmptyData EXCEPT !.re = 1]]} :
       /\ Delivered("parent", e)
       /\ toParent' = IF ParentAccepts(e) THEN Append(toParent, m) ELSE toParent
  /\ UNCHANGED <<toChild, routerVars, ctlVars, uiVars, sessVars, childVars,
                 storeVars, srvVars, readies, loaded, firstDoc, subModels>>

\* A window posts an envelope to the child frame: the listener of the shim
\* runs on it.
ShimStray ==
  /\ childLoaded
  /\ env < MaxEnv
  /\ env' = env + 1
  /\ \E e \in Outsiders("parent"),
        m \in {[action |-> "getNotebook", requestId |-> 1, data |-> EmptyData],
               [action |-> "loadNotebook", requestId |-> MaxReq,
                data |-> [EmptyData EXCEPT !.notebook = DocB]]} :
       /\ Delivered("child", e)
       /\ IF ShimAccepts(e) THEN Listener(m)
          ELSE UNCHANGED <<flushPending, handlers, toParent>>
  /\ UNCHANGED <<toChild, childLoaded, gen, shimReady, reloadTimer, storeExists,
                 store, rtDoc, routerVars, ctlVars, uiVars, sessVars, srvVars,
                 readies, loaded, firstDoc, subModels>>

\* ------------------------------------------------------------------------
\* The specifications
\* ------------------------------------------------------------------------
\* The protocol machinery: start-up, the router, the shim, the runtime's
\* store, the reload.
Core ==
  \/ ZestOnReady
  \/ LoadStateDone
  \/ GuardDone
  \/ handleMessage
  \/ RequestTimeout
  \/ RuntimeInit
  \/ RuntimeFlush
  \/ ShimCheckReady
  \/ ShimReceive
  \/ ShimRead
  \/ ShimLoadNotebook
  \/ ShimLoadFile
  \/ ChildReload

\* Handshake, explicit save and autosave, with a student who edits.
Next ==
  \/ Core
  \/ SaveClick
  \/ AutoSaveFire
  \/ RuntimeEdit
  \/ RuntimeUpload

Spec == Init /\ [][Next]_vars

\* Submission.
NextSubmit ==
  \/ Core
  \/ Tick
  \/ SubmitClick
  \/ CancelClick
  \/ ConfirmClick
  \/ SubmitResult

SpecSubmit == Init /\ [][NextSubmit]_vars

\* Notifications of the extension and foreign envelopes.
NextNotify ==
  \/ Core
  \/ ExtensionNotify
  \/ ForeignEnvelope
  \/ DebounceFire

SpecNotify == Init /\ [][NextNotify]_vars

\* Sessions in which nobody edits or uploads: whatever the runtime and the
\* server hold comes from the content package, the server, or the device.
NextIsolation ==
  \/ Core
  \/ SaveClick
  \/ AutoSaveFire
SpecIsolation == Init /\ [][NextIsolation]_vars

\* Restore with a store whose writes can fail.
\* The child context is reloaded from outside the protocol (the user
\* reloads the frame, the runtime navigates): as after the shim's own
\* reload, the page state of the child is gone and the runtime opens what
\* the store holds.
FrameReload ==
  /\ childLoaded
  /\ env < MaxEnv
  /\ env' = env + 1
  /\ reloadTimer' = FALSE
  /\ gen' = gen + 1
  /\ shimReady' = FALSE
  /\ handlers' = {}
  /\ toChild' = <<>>
  /\ flushPending' = FALSE
  /\ rtDoc' = RuntimeOpen(storeExists, store)
  /\ UNCHANGED <<childLoaded, toParent, storeExists, store, routerVars, ctlVars,
                 uiVars, sessVars, srvVars, readies, loaded, firstDoc>>
  /\ UNCHANGED auxVars

\* stopAutoSave (300-302): clearInterval of the handle _autoSaveTimer holds,
\* which is the one of the last startAutoSave.
stopAutoSave(n) == IF n > 0 THEN n - 1 ELSE 0
\* The beforeunload handler of the page (754-765): the timers are stopped
\* and a student session that has counted time saves once more.  The page
\* and its frame are left: messages under way, handlers and request
\* timeouts go with them.
BeforeUnload ==
  /\ phase # "closed"
  /\ phase' = "closed"
  /\ timeTimer' = FALSE
  /\ autoSaveTimers' = stopAutoSave(autoSaveTimers)
  /\ saveTimer' = FALSE
  /\ srv' = IF zestAvailable /\ st.timeSpent > 0 /\ ~isReview
            THEN Persisted(st, events) ELSE srv
  /\ childLoaded' = FALSE
  /\ shimReady' = FALSE
  /\ handlers' = {}
  /\ reloadTimer' = FALSE
  /\ toChild' = <<>>
  /\ toParent' = <<>>
  /\ timeouts' = {}
  /\ UNCHANGED <<zestAvailable, isReview, st, events, extensionReady,
                 stateRestored, requestId, pending, reqs, ops, uiVars, gen,
                 storeVars, submissions, envVars>>
  /\ UNCHANGED auxVars

\* The session with reloads of the child from outside, until the page is
\* left.
NextReloads ==
  \/ Core
  \/ AutoSaveFire
  \/ FrameReload
  \/ BeforeUnload
SpecReloads == Init /\ [][NextReloads]_vars

\* C39: at most one periodic autosave timer is active at any time, however
\* many `ready` notifications the parent has handled, and none is active
\* once stopAutoSave has run.
C39_OneAutosaveTimer ==
  /\ autoSaveTimers <= 1
  /\ phase = "closed" => autoSaveTimers = 0

NextRestore ==
  \/ Core
  \/ SaveClick
  \/ AutoSaveFire
  \/ ShimLoadNotebookFails
SpecRestore == Init /\ [][NextRestore]_vars

\* Sessions in which other windows post envelopes to the two receivers.
NextSenders ==
  \/ Core
  \/ ParentStray
  \/ ShimStray
SpecSenders == Init /\ [][NextSenders]_vars

\* The requests of the protocol, as a wrapper page may post them to the shim
\* (bridge.js 74-96 posts them with requestId = ++_requestId).
RequestActions ==
  {"getNotebook", "loadNotebook", "save", "getStatus", "getFiles", "loadFiles",
   "runAll", "clearOutputs"}
RequestData(a) ==
  CASE a = "loadNotebook" -> {EmptyData, [EmptyData EXCEPT !.notebook = DocB]}
    [] a = "loadFiles" -> {EmptyData, [EmptyData EXCEPT !.files = <<FILE_X>>]}
    [] OTHER -> {EmptyData}
WrapperRequest ==
  /\ childLoaded
  /\ requestId < MaxAsk
  /\ requestId' = requestId + 1
  /\ \E a \in RequestActions : \E d \in RequestData(a) :
       toChild' = Append(toChild,
                         [action |-> a, requestId |-> requestId + 1, data |-> d])
  /\ UNCHANGED <<pending, timeouts, reqs, ops, toParent, ctlVars, uiVars,
                 sessVars, childVars, storeVars, srvVars, envVars>>
  /\ UNCHANGED auxVars

\* The shim on its own, serving every request of the protocol; the replies
\* stay in the channel.
InitListener == Init /\ ~zestAvailable
NextListener ==
  \/ GuardDone
  \/ RuntimeInit
  \/ RuntimeFlush
  \/ ShimCheckReady
  \/ WrapperRequest
  \/ ShimReceive
  \/ ShimRead
  \/ ShimAnswer
  \/ ShimLoadNotebook
  \/ ShimLoadNotebookFails
  \/ ShimLoadFile
  \/ ChildReload
SpecListener == InitListener /\ [][NextListener]_vars

\* ------------------------------------------------------------------------
\* Properties
\* ------------------------------------------------------------------------
ReqIds == 1..Len(reqs)
Sent(action) == {i \in ReqIds : reqs[i].action = action}
OfKind(kind) == {i \in ReqIds : reqs[i].kind = kind}
Settled(i) == reqs[i].status # "pending"

\* C1 -- handshake convergence.  In a session that loaded a non-null Document
\* the controller sends loadNotebook exactly once, on the first `ready`; a
\* later `ready` sends no restore request and (outside review) starts an
\* autosave timer, so after two `ready` notifications the session is Steady
\* with autosave running.
C1_Inv ==
  Truthy(loaded.notebook) =>
    /\ Cardinality(Sent("loadNotebook")) = (IF readies = 0 THEN 0 ELSE 1)
    /\ (readies >= 1 => stateRestored)
    /\ (readies >= 2 /\ ~isReview => autoSaveTimers >= 1)
C1_Step ==
  (Truthy(loaded.notebook) /\ readies >= 1 /\ readies' = readies + 1) =>
    /\ OfKind("restore")' = OfKind("restore")
    /\ requestId' = requestId
    /\ autoSaveTimers' = IF isReview THEN autoSaveTimers ELSE autoSaveTimers + 1
C1_HandshakeConverges == [](C1_Inv) /\ [][C1_Step]_vars
C1_Witness ==
  /\ Truthy(loaded.notebook) /\ ~isReview
  /\ readies = 2 /\ gen = 2
  /\ Cardinality(Sent("loadNotebook")) = 1
  /\ autoSaveTimers = 1

\* C2 -- previous work is restored.  When a non-review session whose loaded
\* SessionState holds Document D handles its second `ready`, the store entry
\* at the canonical key holds D.
C2_Step ==
  (~isReview /\ Truthy(loaded.notebook) /\ readies = 1 /\ readies' = 2) =>
    (storeExists /\ store.nb = loaded.notebook)
C2_PreviousWorkRestored == [][C2_Step]_vars

\* C3 -- first-time path.  In a non-review session whose SessionState has no
\* Document when the first `ready` is handled, no loadNotebook is sent, the
\* child is not reloaded, and autosave is running once every loadFiles
\* request issued on that `ready` has settled.
C3_FirstTimePath ==
  (~isReview /\ readies >= 1 /\ ~Truthy(firstDoc)) =>
    /\ Sent("loadNotebook") = {}
    /\ gen = 1
    /\ ((\A i \in OfKind("restore") : Settled(i)) => autoSaveTimers >= 1)

\* C4 -- timeout rejects.  resolve/reject is invoked at most once per
\* request; a request is in the pending set exactly while it is unsettled and
\* exactly while its 10 s timer is armed, so a request without a reply is
\* rejected by its timer; the timer firing rejects the request and removes
\* its pending entry, a reply resolves it.
C4_Inv ==
  /\ pending \subseteq ReqIds
  /\ timeouts = pending
  /\ \A i \in ReqIds :
       /\ reqs[i].settles = (IF Settled(i) THEN 1 ELSE 0)
       /\ Settled(i) <=> i \notin pending
C4_Step ==
  \A i \in pending :
    i \notin pending' =>
      reqs'[i].status = (IF toParent' = toParent THEN "rejected" ELSE "resolved")
C4_TimeoutRejects == [](C4_Inv) /\ [][C4_Step]_vars
\* a request timed out and its late reply is on the way to the parent
C4_Witness ==
  \E i \in ReqIds :
    /\ reqs[i].status = "rejected" /\ reqs[i].settles = 1 /\ i \notin pending
    /\ \E k \in 1..Len(toParent) : toParent[k].requestId = i

\* C6 -- replies are matched by id.  A request resolves only with the data
\* of the reply that carries its own id, and a reply settles no other
\* request, whatever the order replies arrive in.
C6_Inv == \A i \in ReqIds : reqs[i].status = "resolved" => reqs[i].got = i
C6_Step ==
  \A i \in ReqIds :
    (reqs[i].status = "pending" /\ reqs'[i].status = "resolved") =>
      (toParent # <<>> /\ Head(toParent).requestId = i)
C6_RepliesMatchedById == [](C6_Inv) /\ [][C6_Step]_vars
\* a later request is resolved while an earlier one is still outstanding
C6_Witness ==
  \E i, j \in ReqIds :
    /\ i < j
    /\ reqs[i].status = "pending" /\ i \in pending
    /\ reqs[j].status = "resolved" /\ reqs[j].got = j

\* The parent handles the message at the head of its queue in this step.
Handles == toParent # <<>> /\ toParent' = Tail(toParent)
UnknownId(msg) == msg.requestId # 0 /\ msg.requestId \notin pending
NoEffect == UNCHANGED <<routerVars, ctlVars, uiVars, sessVars, toChild, srvVars,
                        readies>>
NotificationActions ==
  {"ready", "cellExecutionScheduled", "cellExecuted", "notebookOpened", "dirty",
   "kernelStatus"}

\* C5 (as stated) -- a message whose requestId matches no pending request has
\* no effect on the parent, whatever its action field is.
C5_Original == [][(Handles /\ UnknownId(Head(toParent))) => NoEffect]_vars

\* C5 (amended) -- a message whose requestId matches no pending request and
\* whose action is not one of the notification actions (ready,
\* cellExecutionScheduled, cellExecuted, notebookOpened, dirty, kernelStatus)
\* has no effect on the parent: no request settles, no state changes, nothing
\* is sent or persisted.
C5_Step ==
  (/\ Handles
   /\ UnknownId(Head(toParent))
   /\ Head(toParent).action \notin NotificationActions) => NoEffect
C5_UnknownReplyIgnored == [][C5_Step]_vars
\* the late reply of a request that timed out is about to be handled
C5_Witness ==
  /\ toParent # <<>>
  /\ LET msg == Head(toParent)
     IN /\ msg.requestId \in ReqIds
        /\ reqs[msg.requestId].status = "rejected"
        /\ msg.action \in {"notebookContent", "filesContent", "notebookLoaded",
                           "filesLoaded"}

Own == {i \in 1..Len(submissions) : submissions[i].own}
OpsOfKind(kind) == {k \in 1..Len(ops) : ops[k].kind = kind}
ReqsOf(k) == {i \in ReqIds : reqs[i].op = k}
Completed(k) == \A i \in ReqsOf(k) : Settled(i)

\* C7 -- a failed submission leaves the submitted flag unchanged.  When every
\* submission of the session has failed (success = false, or the call
\* rejected), the submitted flag is false in memory, as the session start left
\* it, and the persisted flag is false if it was false when the session began.
C7_FailedSubmissionLeavesFlag ==
  (/\ ~isReview
   /\ Own # {}
   /\ \A i \in Own : submissions[i].result \in {"fail", "reject"}) =>
    /\ ~st.submitted
    /\ (~loaded.submitted => ~srv.st.submitted)

\* C8 -- submission bundles what was last seen.  The step that hands a
\* submission to the server marks SessionState submitted, in memory and in the
\* persisted copy, and sends one bundle made of the Document, the files, the
\* event log and the counters of SessionState, with cellCount the number of
\* cells of the submitted Document (0 without one) and fileCount the number
\* of submitted files; each submission the server is there for yields
\* exactly one bundle.
C8_Inv ==
  zestAvailable =>
    /\ \A k \in OpsOfKind("submit") :
         /\ ops[k].bundles = (IF Completed(k) THEN 1 ELSE 0)
         /\ (Completed(k) => st.submitted)
    /\ Cardinality(Own) = Cardinality({k \in OpsOfKind("submit") : Completed(k)})
C8_Step ==
  Len(submissions') = Len(submissions) + 1 =>
    LET b == submissions'[Len(submissions')]
    IN /\ st'.submitted /\ srv'.st = st' /\ srv'.events = events'
       /\ b.notebook = st'.notebook
       /\ b.files = st'.files
       /\ b.events = events'
       /\ b.timeSpent = st'.timeSpent
       /\ b.cellExecutions = st'.cellExecutions
       /\ b.interactions = st'.interactions
       /\ b.cellCount = (IF Truthy(b.notebook) THEN b.notebook.cells ELSE 0)
       /\ b.fileCount = Len(b.files)
C8_SubmissionBundles == [](C8_Inv) /\ [][C8_Step]_vars
\* a Document of 3 cells and one file were submitted
C8_Witness ==
  \E i \in Own :
    /\ submissions[i].notebook = DocA /\ submissions[i].cellCount = 3
    /\ Len(submissions[i].files) = 1 /\ submissions[i].fileCount = 1
    /\ st.submitted

\* C9 (as stated) -- after a successful submission a further submission can
\* be initiated in the same session (the submit control is usable) as well as
\* in a later one.
C9_Original ==
  /\ (~isReview /\ \E i \in Own : submissions[i].result = "ok") => ~btnDisabled
  /\ (~isReview /\ uiReady /\ loaded.submitted /\ OfKind("submit") = {}) =>
       ~btnDisabled

\* C9 (amended) -- resubmission is permitted in a later session and after a
\* failed attempt: a session that starts from a state marked submitted has
\* the flag reset and the submit control enabled; with no attempt in flight
\* and the latest attempt failed the control is enabled; every submission
\* that is initiated reaches the server as a new bundle whatever the flag
\* is.  Once a submission of the session has succeeded the submit control
\* stays disabled for the rest of that session.
C9_ResubmissionLaterSession ==
  /\ (~isReview /\ uiReady /\ loaded.submitted /\ OfKind("submit") = {}) =>
       (~st.submitted /\ ~btnDisabled)
  /\ (/\ Own # {}
      /\ \A k \in OpsOfKind("submit") : Completed(k)
      /\ LET last == CHOOSE i \in Own : \A j \in Own : j <= i
         IN submissions[last].result \in {"fail", "reject"}) => ~btnDisabled
  /\ (zestAvailable =>
        \A k \in OpsOfKind("submit") : Completed(k) => ops[k].bundles = 1)
  /\ ((\E i \in Own : submissions[i].result = "ok") => btnDisabled)
\* a session that started from a submitted state has submitted again, with
\* success, after a failed attempt
C9_Witness ==
  /\ loaded.submitted
  /\ \E i, j \in Own :
       /\ i < j
       /\ submissions[i].result \in {"fail", "reject"}
       /\ submissions[j].result = "ok"

\* C10 -- saves degrade gracefully.  Every saveState that enters (server
\* available, not review) has made exactly one Zest.saveState call once its
\* getNotebook and getFiles requests have settled, by reply or by timeout,
\* and none before; an unsettled request has its timer armed.  When the call
\* is made the persisted SessionState is the in-memory one, and for a request
\* that timed out the Document (the files) is the one held before.
C10_Inv ==
  \A k \in OpsOfKind("save") :
    /\ zestAvailable /\ ~isReview
    /\ Cardinality(ReqsOf(k)) = 2
    /\ ops[k].calls = (IF Completed(k) THEN 1 ELSE 0)
    /\ \A i \in ReqsOf(k) : ~Settled(i) => i \in timeouts
C10_Step ==
  \A k \in OpsOfKind("save") :
    (ops[k].calls = 0 /\ ops'[k].calls = 1) =>
      /\ srv'.has /\ srv'.st = st' /\ srv'.events = events'
      /\ \A i \in ReqsOf(k) :
           reqs'[i].status = "rejected" =>
             IF reqs[i].action = "getNotebook"
             THEN st'.notebook = st.notebook
             ELSE st'.files = st.files
C10_SavesDegradeGracefully == [](C10_Inv) /\ [][C10_Step]_vars
\* a save whose two requests both timed out persisted the Document and the
\* files the session held
C10_Witness ==
  \E k \in OpsOfKind("save") :
    /\ ops[k].calls = 1
    /\ \A i \in ReqsOf(k) : reqs[i].status = "rejected"
    /\ Truthy(st.notebook) /\ Len(st.files) > 0
    /\ srv.st.notebook = st.notebook /\ srv.st.files = st.files

\* The controller is Steady: it has handled the second `ready`, or the first
\* one of a session that held no Document then.
Steady == readies >= 2 \/ (readies >= 1 /\ ~Truthy(firstDoc))

\* C11 -- the periodic autosave timer runs in Steady only.  A timer exists
\* only in a non-review session that is Steady, so none fires while the
\* controller is AwaitingReady or Restoring; it is started once, by the step
\* that handles a `ready` or settles the restore requests.
C11_Inv ==
  /\ autoSaveTimers <= 1
  /\ autoSaveTimers > 0 => (~isReview /\ Steady)
  /\ ~Steady => ~ENABLED AutoSaveFire
C11_Step ==
  autoSaveTimers' # autoSaveTimers =>
    /\ autoSaveTimers = 0 /\ autoSaveTimers' = 1
    /\ ~isReview /\ Steady'
    /\ \/ toParent # <<>> /\ toParent' = Tail(toParent)
       \/ \E i \in OfKind("restore") : ~Settled(i) /\ Settled(i)'
StoreNames ==
  {"JupyterLite Storage", "JupyterLite Storage - lab", "localforage", "notes-app"}

\* The filter of the guard (681-687): the name contains JupyterLite, jupyter
\* or localforage.
IsRuntimeFamily(name) ==
  name \in {"JupyterLite Storage", "JupyterLite Storage - lab", "localforage"}

\* The main machine at rest while the guard is looked at on its own.
MainIdle == MainInit /\ ~zestAvailable /\ ~storeExists

InitGuard ==
  /\ MainIdle
  /\ NoStray
  /\ BootAtRest
  /\ ChainAtRest
  /\ Shim3AtRest
  /\ LogAtRest
  /\ AdapterAtRest
  /\ StoreAtRest
  /\ dbs \in SUBSET StoreNames
  /\ guard = GuardIdle
  /\ frame = FrameIdle

\* resolve() of the guard's promise: the first call settles it, and the
\* reaction of loadJupyterLite (725-737) sets the iframe source in the same
\* task, with the stores that exist then.
GuardResolves(g, now) ==
  /\ guard' = [g EXCEPT !.resolved = TRUE]
  /\ frame' = IF guard.resolved THEN frame ELSE [loaded |-> TRUE, atLoad |-> now]

\* --remaining === 0 (701, 705, 709)
CountsDown(g) == [g EXCEPT !.remaining = @ - 1]
LastOne(g) == g.remaining = 0

\* setTimeout(resolve, 3000) (713)
NotArmed(g) == g
Armed(g) == [g EXCEPT !.timer = TRUE]

\* 673-678: without indexedDB.databases() the guard resolves at once.
GuardStart ==
  /\ guard.pc = "start"
  /\ \E supported \in BOOLEAN :
       IF supported
       THEN guard' = [guard EXCEPT !.pc = "enum"] /\ UNCHANGED frame
       ELSE GuardResolves([guard EXCEPT !.pc = "done"], dbs)
  /\ UNCHANGED <<dbs, notGuard>>

\* 680-712: databases() settles; the matching stores get a deleteDatabase
\* request each and the 3 s safety timer is armed.
GuardEnumerate ==
  /\ guard.pc = "enum"
  /\ \E ok \in BOOLEAN :
       LET found == {n \in dbs : IsRuntimeFamily(n)}
       IN IF ~ok \/ found = {}
          THEN GuardResolves([guard EXCEPT !.pc = "done"], dbs)
          ELSE /\ guard' = Armed([guard EXCEPT !.pc = "deleting",
                                                !.reported = found,
                                                !.inflight = found,
                                                !.remaining = Cardinality(found)])
               /\ UNCHANGED frame
  /\ UNCHANGED <<dbs, notGuard>>

\* req.onsuccess (699-702): the store is gone.
DeleteSuccess ==
  \E n \in guard.inflight :
    LET g == CountsDown([guard EXCEPT !.inflight = @ \ {n}])
    IN /\ dbs' = dbs \ {n}
       /\ IF LastOne(g) THEN GuardResolves(g, dbs') ELSE guard' = g /\ UNCHANGED frame
       /\ UNCHANGED notGuard

\* req.onerror (703-706): the store stays.
DeleteError ==
  \E n \in guard.inflight :
    LET g == CountsDown([guard EXCEPT !.inflight = @ \ {n}])
    IN /\ IF LastOne(g) THEN GuardResolves(g, dbs) ELSE guard' = g /\ UNCHANGED frame
       /\ UNCHANGED <<dbs, notGuard>>

\* req.onblocked (707-710): another connection holds the store; the request
\* stays in flight and succeeds or fails later.
DeleteBlocked ==
  \E n \in guard.inflight \ guard.blocked :
    LET g == CountsDown([guard EXCEPT !.blocked = @ \cup {n}])
    IN /\ IF LastOne(g) THEN GuardResolves(g, dbs) ELSE guard' = g /\ UNCHANGED frame
       /\ UNCHANGED <<dbs, notGuard>>

\* setTimeout(resolve, 3000) (713)
SafetyTimeout ==
  /\ guard.timer
  /\ GuardResolves([guard EXCEPT !.timer = FALSE], dbs)
  /\ UNCHANGED <<dbs, notGuard>>

NextGuard ==
  \/ GuardStart
  \/ GuardEnumerate
  \/ DeleteSuccess
  \/ DeleteError
  \/ DeleteBlocked
  \/ SafetyTimeout
SpecGuard == InitGuard /\ [][NextGuard]_vars

\* C12 -- the child context is never loaded before the isolation guard has
\* done its work: when the iframe source is set, every store the platform
\* reported with a runtime-family name has been deleted and no store with
\* such a name exists.
C12_GuardBeforeLoad ==
  frame.loaded =>
    /\ guard.reported \cap frame.atLoad = {}
    /\ {n \in frame.atLoad : IsRuntimeFamily(n)} = {}

\* The guard where every callback the platform owes is run: the enumeration
\* settles and the safety timer fires.  Delete requests may never report.
FairGuard ==
  /\ WF_vars(GuardStart)
  /\ WF_vars(GuardEnumerate)
  /\ WF_vars(SafetyTimeout)
SpecGuardFair == InitGuard /\ [][NextGuard]_vars /\ FairGuard

\* C36 -- the isolation guard always completes.  Whatever the delete
\* requests report, or if they never report, and whether the enumeration is
\* unsupported or fails: while the guard is unresolved it is still starting,
\* enumerating, or its safety timer is armed; once the timer has fired the
\* guard is resolved; the child context is loaded exactly when the guard is
\* resolved; and the guard does resolve.
C36_Inv ==
  /\ ~guard.resolved => (guard.pc \in {"start", "enum"} \/ guard.timer)
  /\ (guard.pc = "deleting" /\ ~guard.timer) => guard.resolved
  /\ guard.resolved <=> frame.loaded
C36_GuardCompletes == [](C36_Inv) /\ <>(guard.resolved /\ frame.loaded)
\* The safety timer has resolved the guard while a delete request has not
\* reported, and the child context is loaded.
C36_Witness ==
  /\ guard.resolved
  /\ frame.loaded
  /\ ~guard.timer
  /\ guard.inflight \ guard.blocked # {}
  /\ guard.remaining = Cardinality(guard.reported)

\* C37 -- the guard resolves before its safety timer fires only after each
\* targeted store has been deleted or its deletion has failed: while the
\* timer is still armed, a resolved guard has no delete request in flight.
C37_ResolvesAfterDeletions ==
  (guard.resolved /\ guard.timer) => guard.inflight = {}
\* With every `blocked` request left out of account, the same holds: the
\* success and error handlers alone never resolve the guard early.
C37_WithoutBlocked ==
  (guard.resolved /\ guard.timer /\ guard.blocked = {}) => guard.inflight = {}

\* C13 -- no residue of a prior occupant reaches a session.  Two runs that
\* differ only in what a previous session left in the store hold the same
\* Document and files in the runtime after the handshake and save the same
\* SessionState: nothing that stems from the leftover store shows up in the
\* runtime once the controller is Steady, nor in a state saved or submitted
\* to the server.
Leftover(doc) == doc = StaleStore.nb
LeftoverFiles(files) == files \cap StaleStore.files # {}
C13_NoResidue ==
  /\ ~Leftover(srv.st.notebook)
  /\ ~LeftoverFiles(SeqToSet(srv.st.files))
  /\ \A i \in Own : /\ ~Leftover(submissions[i].notebook)
                    /\ ~LeftoverFiles(SeqToSet(submissions[i].files))
  /\ Steady => (~Leftover(rtDoc) /\ ~LeftoverFiles(store.files))

\* ------------------------------------------------------------------------
\* The storage adapter of the v3.1 shim (part_004), step by step: every
\* platform event (enumeration, open, upgrade-needed, request completion)
\* is one step, so operations interleave as their callbacks do.
\* ------------------------------------------------------------------------
\* The child context has just loaded the shim: setTimeout(checkReady, 4000)
\* is armed (590); the runtime may or may not have created its stores yet.
InitAdapter ==
  /\ MainIdle
  /\ NoStray
  /\ BootAtRest
  /\ ChainAtRest
  /\ Shim3AtRest
  /\ LogAtRest
  /\ GuardAtRest
  /\ StoreAtRest
  /\ idb \in [AdapterNames -> {"absent", "nofiles", "ready"}]
  /\ expected = idb
  /\ canEnum \in BOOLEAN
  /\ dbName = NoName
  /\ isReady = FALSE
  /\ aops = [s \in Slots |-> IdleOp]
  /\ conns = {}
  /\ emitted = <<>>
  /\ checkTimer = TRUE

Exists(n) == idb[n] \in {"nofiles", "ready"}
\* db.objectStoreNames.contains(FILES_STORE)
HasFiles(n) == idb[n] = "ready"
Orders(S) == {s \in [1..Cardinality(S) -> S] : SeqToSet(s) = S}
Free(i) == aops[i].pc \in {"idle", "done"}
FreeSlot == CHOOSE i \in Slots : Free(i) /\ \A j \in Slots : Free(j) => i <= j
Probing(o) == o.pc \in {"probing", "probeUpgrade", "probeOpened"}
Target(o) == IF Probing(o) THEN Head(o.cands) ELSE o.name
\* A connection the platform has opened whose success handler has not run.
Unhandled(n) ==
  \E i \in conns : aops[i].pc \in {"probeOpened", "opened"} /\ Target(aops[i]) = n
\* db.onversionchange = function () { db.close(); } (155-158)
onversionchange(cs, n) ==
  cs \ {i \in Slots : aops[i].pc = "tx" /\ aops[i].name = n}

\* db.close() (123, 164, 167, 171, 175)
ConnectionKept(cs, i) == cs
Close(cs, i) == cs \ {i}

\* event.target.transaction.abort() (117, 148): the store that the open
\* request was creating is rolled back.
UpgradeCommits(d, n) == [d EXCEPT ![n] = "nofiles"]
AbortUpgrade(d, n) == [d EXCEPT ![n] = "absent"]

\* The promise of the operation settles.
Done(o, how, val) ==
  [o EXCEPT !.pc = "done", !.how = how, !.val = val, !.cands = <<>>]

\* tryNext(idx + 1) (89-98), and the catch of the single probe (67-69)
tryNext(o) ==
  IF Len(o.cands) <= 1 THEN Done([o EXCEPT !.cands = <<>>], "nodb", FALSE)
  ELSE [o EXCEPT !.pc = "probing", !.cands = Tail(@)]

\* The synchronous part of a call: the executor of discoverDatabaseName
\* (56-71) and, with a cached name, indexedDB.open of withDB (141-144).
discoverDatabaseName(kind, by, dn) ==
  LET o == [IdleOp EXCEPT !.kind = kind, !.by = by]
  IN IF dn # NoName
     THEN IF kind = "discover" THEN Done([o EXCEPT !.name = dn], "ok", FALSE)
          ELSE [o EXCEPT !.pc = "opening", !.name = dn]
     ELSE IF ~canEnum
          THEN [o EXCEPT !.pc = "probing", !.cands = <<"JupyterLite Storage">>]
          ELSE [o EXCEPT !.pc = "enum"]

\* sendToWrapper('ready', ...) (559-575)
ReadyMessage(o) ==
  [type |-> "ready", capabilities |-> Capabilities, dbName |-> o.name,
   hasWidget |-> (o.how = "ok" /\ o.val)]

\* retry of checkReady only when discovery failed (581-584)
RetryAlways(o) == TRUE
RetryNever(o) == FALSE
RetryOnFailure(o) == o.how # "ok"

\* Slot i gets the record o; when o has settled, the reactions of checkReady
\* (545-584) run in the same task.  dn is _dbName, t the state of the
\* checkReady timer before the reactions.
React(i, o, dn, t) ==
  LET mine == o.pc = "done" /\ o.by = "ready"
      found == mine /\ o.kind = "discover" /\ o.how = "ok" /\ ~isReady
      retry == mine /\ o.kind = "discover" /\ RetryOnFailure(o)
      read == mine /\ o.kind = "get"
  IN /\ isReady' = (isReady \/ found)
     /\ checkTimer' = (t \/ retry)
     /\ emitted' = IF read THEN Append(emitted, ReadyMessage(o)) ELSE emitted
     /\ aops' = [aops EXCEPT ![i] =
                   IF found THEN discoverDatabaseName("get", "ready", o.name)
                   ELSE IF read /\ o.how = "ok"
                        THEN discoverDatabaseName("list", "ready", dn)
                        ELSE IF o.pc = "done"
                             THEN [o EXCEPT !.name = NoName, !.val = FALSE]
                             ELSE o]

\* A request of the wrapper reaches the adapter: readItem, writeItem,
\* getAllItems (203-253) called from the message listener.
StartOp ==
  /\ \E i \in Slots : Free(i)
  /\ \E kind \in {"get", "put", "list"} :
       React(FreeSlot, discoverDatabaseName(kind, "parent", dbName), dbName,
             checkTimer)
  /\ UNCHANGED <<idb, expected, canEnum, dbName, conns, notAdapter>>

\* The checkReady timer fires (543-544).
checkReady ==
  /\ checkTimer
  /\ \E i \in Slots : Free(i)
  /\ React(FreeSlot, discoverDatabaseName("discover", "ready", dbName), dbName,
           FALSE)
  /\ UNCHANGED <<idb, expected, canEnum, dbName, conns, notAdapter>>

\* indexedDB.databases() settles (73-103).
Enumerate(i) ==
  /\ aops[i].pc = "enum"
  /\ \E ok \in BOOLEAN :
       LET found == {n \in AdapterNames : Exists(n)}
       IN \E c \in Orders(found) :
            React(i, IF ~ok \/ found = {}
                     THEN Done(aops[i], "nodb", FALSE)
                     ELSE [aops[i] EXCEPT !.pc = "probing", !.cands = c],
                  dbName, checkTimer)
  /\ UNCHANGED <<idb, expected, canEnum, dbName, conns, notAdapter>>

\* The platform serves an open request (112, 143): it fails, or it finds no
\* store and starts creating one, or it hands over a connection.
PlatformOpen(i) ==
  LET o == aops[i]
      n == Target(o)
  IN /\ o.pc \in {"probing", "opening"}
     /\ idb[n] # "creating"
     /\ \E err \in BOOLEAN :
          IF err
          THEN /\ React(i, IF Probing(o) THEN tryNext(o)
                           ELSE Done(o, "openerr", FALSE), dbName, checkTimer)
               /\ UNCHANGED <<idb, conns>>
          ELSE IF idb[n] = "absent"
          THEN /\ idb' = [idb EXCEPT ![n] = "creating"]
               /\ React(i, [o EXCEPT !.pc = IF Probing(o) THEN "probeUpgrade"
                                            ELSE "upgrade"], dbName, checkTimer)
               /\ UNCHANGED conns
          ELSE /\ conns' = conns \cup {i}
               /\ React(i, [o EXCEPT !.hadConn = TRUE,
                                     !.pc = IF Probing(o) THEN "probeOpened"
                                            ELSE "opened"], dbName, checkTimer)
               /\ UNCHANGED idb
     /\ UNCHANGED <<expected, canEnum, dbName, notAdapter>>

\* request.onupgradeneeded (115-119, 147-150)
OnUpgradeNeeded(i) ==
  LET o == aops[i]
  IN /\ o.pc \in {"probeUpgrade", "upgrade"}
     /\ idb' = AbortUpgrade(idb, Target(o))
     /\ React(i, IF Probing(o) THEN tryNext(o) ELSE Done(o, "upgrade", FALSE),
              dbName, checkTimer)
     /\ UNCHANGED <<expected, canEnum, dbName, conns, notAdapter>>

\* request.onsuccess of the probe (120-129): tryOpenWithFilesStore
tryOpenWithFilesStore(i) ==
  LET o == aops[i]
      n == Target(o)
  IN /\ o.pc = "probeOpened"
     /\ conns' = Close(conns, i)
     /\ IF HasFiles(n)
        THEN /\ dbName' = n
             /\ React(i, IF o.kind = "discover"
                         THEN Done([o EXCEPT !.name = n, !.cands = <<>>], "ok", FALSE)
                         ELSE [o EXCEPT !.pc = "opening", !.name = n,
                                        !.cands = <<>>],
                      n, checkTimer)
        ELSE /\ React(i, tryNext(o), dbName, checkTimer)
             /\ UNCHANGED dbName
     /\ UNCHANGED <<idb, expected, canEnum, notAdapter>>

\* request.onsuccess of withDB (151-177) with the callback of
\* withTransaction (186-198): no `files` collection, a throw, or a request
\* on the collection.
withDB(i) ==
  LET o == aops[i]
  IN /\ o.pc = "opened"
     /\ \E throws \in BOOLEAN :
          IF ~HasFiles(o.name)
          THEN /\ conns' = Close(conns, i)
               /\ React(i, Done(o, "nofiles", FALSE), dbName, checkTimer)
          ELSE IF throws
          THEN /\ conns' = Close(conns, i)
               /\ React(i, Done(o, "throw", FALSE), dbName, checkTimer)
          ELSE /\ React(i, [o EXCEPT !.pc = "tx"], dbName, checkTimer)
               /\ UNCHANGED conns
     /\ UNCHANGED <<idb, expected, canEnum, dbName, notAdapter>>

\* The request on the collection completes (163-169): close, then settle.
RequestDone(i) ==
  LET o == aops[i]
  IN /\ o.pc = "tx"
     /\ conns' = Close(conns, i)
     /\ \E ok \in BOOLEAN, val \in BOOLEAN :
          React(i, Done(o, IF ok THEN "ok" ELSE "opfail", ok /\ val), dbName,
                checkTimer)
     /\ UNCHANGED <<idb, expected, canEnum, dbName, notAdapter>>

\* The runtime creates a store, without the `files` collection at first.
RuntimeCreates(n) ==
  /\ idb[n] = "absent"
  /\ idb' = [idb EXCEPT ![n] = "nofiles"]
  /\ expected' = [expected EXCEPT ![n] = "nofiles"]
  /\ UNCHANGED <<canEnum, dbName, isReady, aops, conns, emitted, checkTimer,
                 notAdapter>>

\* The runtime upgrades a store (localforage adds its collections one
\* version at a time); connections with a versionchange handler close.
RuntimeUpgrades(n) ==
  /\ Exists(n)
  /\ ~Unhandled(n)
  /\ idb' = [idb EXCEPT ![n] = "ready"]
  /\ expected' = [expected EXCEPT ![n] = "ready"]
  /\ conns' = onversionchange(conns, n)
  /\ UNCHANGED <<canEnum, dbName, isReady, aops, emitted, checkTimer,
                 notAdapter>>

\* deleteDatabase by the isolation guard of another page of the same origin
\* (bridge.js 696-711).
StoreDeleted(n) ==
  /\ Exists(n)
  /\ ~Unhandled(n)
  /\ idb' = [idb EXCEPT ![n] = "absent"]
  /\ expected' = [expected EXCEPT ![n] = "absent"]
  /\ conns' = onversionchange(conns, n)
  /\ UNCHANGED <<canEnum, dbName, isReady, aops, emitted, checkTimer,
                 notAdapter>>

NextAdapter ==
  \/ StartOp
  \/ checkReady
  \/ \E i \in Slots : Enumerate(i)
  \/ \E i \in Slots : PlatformOpen(i)
  \/ \E i \in Slots : OnUpgradeNeeded(i)
  \/ \E i \in Slots : tryOpenWithFilesStore(i)
  \/ \E i \in Slots : withDB(i)
  \/ \E i \in Slots : RequestDone(i)
  \/ \E n \in AdapterNames : RuntimeCreates(n)
  \/ \E n \in AdapterNames : RuntimeUpgrades(n)
  \/ \E n \in AdapterNames : StoreDeleted(n)
SpecAdapter == InitAdapter /\ [][NextAdapter]_vars

\* C14 -- connection lifetime in the v3.1 shim: every connection the
\* adapter opens, by withDB and by the discovery probe, is closed before the
\* promise of the operation that opened it settles -- on success, on a
\* failed request, on a synchronous throw and when the `files` collection is
\* missing -- so a connection is open only while its operation is between the
\* platform handing it over and the completion of its request, and none is
\* open between two operations.
HoldsConnection(o) == o.pc \in {"probeOpened", "opened", "tx"}
C14_ConnectionsClosed ==
  /\ \A i \in conns : HoldsConnection(aops[i])
  /\ (\A i \in Slots : Free(i)) => conns = {}
C14_Witness ==
  /\ conns = {}
  /\ \E i, j \in Slots :
       /\ aops[i].pc = "done" /\ aops[i].hadConn /\ aops[i].how = "ok"
       /\ aops[j].pc = "done" /\ aops[j].hadConn
       /\ aops[j].how \in {"nofiles", "throw", "opfail"}

\* C15 -- the adapter never holds more than one open connection to the
\* store at a time: whatever the interleaving of the operations started by
\* the wrapper's requests and by the shim's readiness reads, at most one
\* adapter connection is open.
C15_AtMostOneConnection == Cardinality(conns) <= 1

\* C16 -- the adapter never creates a store.  When an open request signals
\* that an upgrade (the creation of the store) is needed, the adapter aborts
\* the upgrade transaction and the operation (the probe, or the call of
\* withDB) fails; so a store exists, with the collections it has, exactly as
\* the runtime made it, after any sequence of probes, reads, writes and
\* enumerations.  openDatabase of the v3 shim (bridge-shim.js 118-151) aborts
\* in the same way.
Upgrading(o) == o.pc \in {"probeUpgrade", "upgrade"}
C16_Inv ==
  \A n \in AdapterNames :
    IF idb[n] = "creating"
    THEN /\ expected[n] = "absent"
         /\ \E i \in Slots : Upgrading(aops[i]) /\ Target(aops[i]) = n
    ELSE idb[n] = expected[n]
C16_Step ==
  \A i \in Slots :
    (Upgrading(aops[i]) /\ aops'[i] # aops[i]) =>
      /\ idb'[Target(aops[i])] = "absent"
      /\ \/ aops'[i].pc = "done" /\ aops'[i].how \in {"upgrade", "nodb"}
         \/ /\ aops[i].pc = "probeUpgrade" /\ aops'[i].pc = "probing"
            /\ aops'[i].cands = Tail(aops[i].cands)
C16_NeverCreatesStore == [](C16_Inv) /\ [][C16_Step]_vars
C16_Witness ==
  \E i \in Slots :
    /\ aops[i].pc = "done" /\ aops[i].how = "upgrade"
    /\ dbName # NoName /\ idb[dbName] = "absent"
    /\ idb = expected

\* C17 -- within one lifetime of the child context the shim emits `ready`
\* exactly once.  It is emitted only after discovery has succeeded (_ready is
\* set), when the readiness read that follows discovery settles, and it
\* carries the discovered store name and the capability list; once _ready is
\* set checkReady is never armed again, and no later discovery, failed read
\* or retry emits a second `ready`.
ReadinessRead(o) ==
  /\ o.kind = "get" /\ o.by = "ready"
  /\ o.pc \in {"opening", "upgrade", "opened", "tx"}
C17_Inv ==
  /\ Len(emitted) <= 1
  /\ emitted # <<>> => isReady
  /\ isReady => ~checkTimer
  /\ isReady =>
       (emitted = <<>>) = (\E i \in Slots : ReadinessRead(aops[i]))
  /\ \A k \in 1..Len(emitted) :
       /\ emitted[k].type = "ready"
       /\ emitted[k].dbName \in AdapterNames
       /\ emitted[k].capabilities = Capabilities
C17_Step ==
  /\ (isReady' # isReady) =>
       /\ isReady' /\ emitted' = <<>>
       /\ \E i \in Slots : /\ ReadinessRead(aops'[i])
                           /\ aops[i].kind = "discover" \/ Free(i)
                           /\ aops'[i].name \in AdapterNames
  /\ (emitted' # emitted) =>
       /\ emitted = <<>> /\ Len(emitted') = 1 /\ isReady
       /\ \E i \in Slots : /\ ReadinessRead(aops[i])
                           /\ ~ReadinessRead(aops'[i])
                           /\ emitted'[1].dbName = aops[i].name
C17_ReadyExactlyOnce == [](C17_Inv) /\ [][C17_Step]_vars
C17_Witness ==
  /\ Len(emitted) = 1
  /\ ~emitted[1].hasWidget
  /\ \E i \in Slots : /\ aops[i].by = "parent" /\ aops[i].pc = "done"
                      /\ aops[i].how = "upgrade"

\* C18 -- on loadNotebook carrying a Document the shim writes the Document at
\* the canonical key, then posts the success reply, then reloads the child
\* context, in that order.  The step that settles such a request has written
\* the Document, posts the success reply and schedules the reload -- the
\* reload follows every loadNotebook that carries a Document --; the reload
\* is scheduled by such a step only, the child context is torn down only by
\* a reload scheduled so, and while the reload is scheduled the reply is on
\* its way to the parent or the request is settled.
C18_LoadNotebookSettles(h) ==
  h.action = "loadNotebook" /\ h \in handlers /\ h \notin handlers' /\ gen' = gen
C18_Inv ==
  reloadTimer =>
    \E i \in Sent("loadNotebook") :
      \/ Settled(i)
      \/ \E k \in 1..Len(toParent) :
           /\ toParent[k].action = "notebookLoaded"
           /\ toParent[k].requestId = i
           /\ toParent[k].data.success
C18_Step ==
  /\ \A h \in handlers :
       C18_LoadNotebookSettles(h) =>
         /\ Truthy(h.notebook)
         /\ store'.nb = h.notebook
         /\ toParent' = Append(toParent,
               Envelope("notebookLoaded", [EmptyData EXCEPT !.success = TRUE], h.id))
         /\ reloadTimer'
  /\ (reloadTimer' /\ ~reloadTimer) =>
       \E h \in handlers : C18_LoadNotebookSettles(h)
  /\ (gen' # gen /\ gen > 0) => (reloadTimer /\ ~reloadTimer' /\ toParent' = toParent)
C18_WriteReplyReload == [](C18_Inv) /\ [][C18_Step]_vars

\* ------------------------------------------------------------------------
\* The store functions of the v3.1 shim (part_004 203-390) as functions of
\* the contents of the `files` collection
\* ------------------------------------------------------------------------
\* A notebook with no cells: an object, hence truthy.
EmptyNotebook == [id |-> 4, cells |-> 0, execs |-> 0]
Documents == Docs \cup {EmptyNotebook}

\* a || b on strings: the empty string (and undefined) is falsy.
OrElse(a, b) == IF a # "" THEN a ELSE b
\* content is falsy: null, an empty string, or no Document.
FalsyContent(c) == c.isNull \/ (c.text = "" /\ ~Truthy(c.doc))

\* path.split('/'): the prefixes parts.slice(0, d).join('/') for d = 1 ..
\* parts.length - 1, and parts.pop().
ParentDirs(path) ==
  CASE path = "img/plot.png" -> <<"img">>
    [] path = ".ipynb_checkpoints/assignment.ipynb" -> <<".ipynb_checkpoints">>
    [] OTHER -> <<>>
BaseName(path) ==
  CASE path = "img/plot.png" -> "plot.png"
    [] path = ".ipynb_checkpoints/assignment.ipynb" -> "assignment.ipynb"
    [] OTHER -> path
\* key.indexOf('.ipynb_checkpoints') !== -1, key.indexOf('.virtual_documents')
\* !== -1 (321-322)
IsHousekeeping(key) ==
  key \in {".ipynb_checkpoints", ".ipynb_checkpoints/assignment.ipynb"}

\* store.put(model, path) (214-220)
writeItem(c, path, model) == [c EXCEPT ![path] = model]
\* store.get(path): request.result || null (203-210)
readItem(c, path) == c[path]

\* The model saveNotebookToDB builds (298-309).
ModelWithoutContent(D) ==
  [present |-> TRUE, path |-> NOTEBOOK_PATH, name |-> NOTEBOOK_PATH,
   type |-> "notebook", format |-> "json", mimetype |-> "application/json",
   content |-> NullContent]
NotebookModel(D) ==
  [present |-> TRUE, path |-> NOTEBOOK_PATH, name |-> NOTEBOOK_PATH,
   type |-> "notebook", format |-> "json", mimetype |-> "application/json",
   content |-> DocContent(D)]
saveNotebookToDB(c, D) == writeItem(c, NOTEBOOK_PATH, NotebookModel(D))

\* getNotebookFromDB (285-294): null without a model, else model.content ||
\* null.
getNotebookFromDB(c) ==
  LET model == readItem(c, NOTEBOOK_PATH)
  IN IF ~model.present \/ FalsyContent(model.content) THEN Null
     ELSE model.content.doc

\* The file object getAllFilesFromDB pushes (325-332).
ExportedFile(key, model) ==
  [path |-> OrElse(model.path, key),
   name |-> OrElse(model.name, BaseName(key)),
   type |-> OrElse(model.type, "file"),
   format |-> OrElse(model.format, "text"),
   content |-> model.content,
   mimetype |-> model.mimetype]
\* The entries getAllFilesFromDB keeps (318-324).
IsExportedWithDirectories(key, model) ==
  /\ model.present
  /\ key # NOTEBOOK_PATH
  /\ ~IsHousekeeping(key)
  /\ ~model.content.isNull \/ model.type = "directory"
IsExported(key, model) ==
  /\ model.present
  /\ key # NOTEBOOK_PATH
  /\ model.type # "directory"
  /\ ~IsHousekeeping(key)
  /\ ~model.content.isNull
\* getAllFilesFromDB (313-338) over the cursor of getAllItems (236-253)
RECURSIVE ExportFrom(_, _)
ExportFrom(c, i) ==
  IF i > Len(KeyOrder) THEN <<>>
  ELSE LET key == KeyOrder[i]
       IN (IF IsExported(key, c[key]) THEN <<ExportedFile(key, c[key])>> ELSE <<>>)
          \o ExportFrom(c, i + 1)
getAllFilesFromDB(c) == ExportFrom(c, 1)

\* The directory entry restoreFilesToDB writes (353-364).
DirectoryModel(dirPath) ==
  [present |-> TRUE, path |-> dirPath, name |-> BaseName(dirPath),
   type |-> "directory", format |-> "json", mimetype |-> "",
   content |-> NullContent]
\* format: f.format || 'text' (377)
AlwaysText(f) == "text"
RestoredFormat(f) == OrElse(f.format, "text")
\* The file entry restoreFilesToDB writes (371-383).
FileModel(f) ==
  [present |-> TRUE, path |-> f.path, name |-> OrElse(f.name, BaseName(f.path)),
   type |-> OrElse(f.type, "file"), format |-> RestoredFormat(f),
   mimetype |-> f.mimetype, content |-> f.content]
RECURSIVE WriteDirs(_, _)
WriteDirs(c, dirs) ==
  IF dirs = <<>> THEN c
  ELSE WriteDirs(writeItem(c, Head(dirs), DirectoryModel(Head(dirs))), Tail(dirs))
\* restoreFilesToDB (340-390): for each file in turn its parent directories,
\* then the file.
RECURSIVE restoreFilesToDB(_, _)
restoreFilesToDB(c, fs) ==
  IF fs = <<>> THEN c
  ELSE LET f == Head(fs)
       IN restoreFilesToDB(
            writeItem(WriteDirs(c, ParentDirs(f.path)), f.path, FileModel(f)),
            Tail(fs))

\* What the runtime writes at a key: a notebook, a text file (with or without
\* a format, possibly empty), a binary file inside a directory, a checkpoint.
RuntimeFile(key, format, mimetype, text) ==
  [present |-> TRUE, path |-> key, name |-> BaseName(key), type |-> "file",
   format |-> format, mimetype |-> mimetype, content |-> TextContent(text)]
RuntimeEntries(key) ==
  CASE key = NOTEBOOK_PATH -> {NotebookModel(D) : D \in Documents}
    [] key = "data.csv" ->
         {RuntimeFile(key, "text", "text/csv", "a,b"),
          RuntimeFile(key, "text", "text/csv", ""),
          RuntimeFile(key, "", "", "a,b"),
          [RuntimeFile(key, "text", "text/csv", "") EXCEPT !.content = NullContent]}
    [] key = "img/plot.png" -> {RuntimeFile(key, "base64", "image/png", "iVBOR")}
    [] key = ".ipynb_checkpoints/assignment.ipynb" ->
         {[NotebookModel(DocA) EXCEPT !.path = key]}
    [] OTHER -> {DirectoryModel(key)}
\* The runtime keeps a tree: an entry has its parent directories, and an
\* entry records its own key as its path.
WellFormed(c) ==
  \A k \in StoreKeys :
    c[k].present =>
      /\ c[k] \in RuntimeEntries(k)
      /\ \A i \in 1..Len(ParentDirs(k)) : c[ParentDirs(k)[i]].present

InitStore ==
  /\ MainIdle
  /\ NoStray
  /\ BootAtRest
  /\ ChainAtRest
  /\ Shim3AtRest
  /\ LogAtRest
  /\ GuardAtRest
  /\ AdapterAtRest
  /\ kv \in {c \in [StoreKeys -> {NoEntry} \cup UNION {RuntimeEntries(k) : k \in StoreKeys}] :
               WellFormed(c)}
  /\ wrote = NoWrite
  /\ restoredList = NoList
  /\ outcome = NoOutcome

\* The loadNotebook case writes a Document (431).
WriteDocument ==
  \E D \in Documents :
    /\ kv' = saveNotebookToDB(kv, D)
    /\ wrote' = [valid |-> TRUE, doc |-> D]
    /\ outcome' = [NoOutcome EXCEPT !.op = "write"]
    /\ UNCHANGED <<restoredList, notStore>>

\* The getNotebook case reads the Document (409).
ReadDocument ==
  /\ outcome' = [NoOutcome EXCEPT !.op = "read", !.doc = getNotebookFromDB(kv)]
  /\ UNCHANGED <<kv, wrote, restoredList, notStore>>

\* The getFiles case enumerates the files (493).
ExportFiles ==
  /\ outcome' = [NoOutcome EXCEPT !.op = "export", !.list = getAllFilesFromDB(kv)]
  /\ UNCHANGED <<kv, wrote, restoredList, notStore>>

\* The loadFiles case (509-523) on a device whose store is empty, with the
\* list a getFiles has just returned.
RestoreFiles ==
  /\ outcome.op = "export"
  /\ kv' = restoreFilesToDB(EmptyCollection, outcome.list)
  /\ restoredList' = [valid |-> TRUE, list |-> outcome.list]
  /\ wrote' = NoWrite
  /\ outcome' = [NoOutcome EXCEPT !.op = "restore"]
  /\ UNCHANGED notStore

\* The runtime saves a notebook or a file of its own.
RuntimeWrites ==
  \E k \in StoreKeys :
    \E e \in RuntimeEntries(k) :
      /\ kv' = writeItem(WriteDirs(kv, ParentDirs(k)), k, e)
      /\ kv' # kv
      /\ wrote' = IF k = NOTEBOOK_PATH THEN NoWrite ELSE wrote
      /\ restoredList' = IF k = NOTEBOOK_PATH THEN restoredList ELSE NoList
      /\ outcome' = [NoOutcome EXCEPT !.op = "runtime"]
      /\ UNCHANGED notStore

NextStore ==
  \/ WriteDocument
  \/ ReadDocument
  \/ ExportFiles
  \/ RestoreFiles
  \/ RuntimeWrites
SpecStore == InitStore /\ [][NextStore]_vars

\* C19 -- Document round trip: for every Document D, after saveNotebookToDB
\* has written D at the canonical key and nothing else has written that key,
\* getNotebookFromDB returns D.
C19_DocumentRoundTrip ==
  (outcome.op = "read" /\ wrote.valid) => outcome.doc = wrote.doc
C19_Witness ==
  /\ outcome.op = "read" /\ wrote.valid
  /\ wrote.doc = EmptyNotebook /\ outcome.doc = EmptyNotebook
  /\ kv[NOTEBOOK_PATH].content.doc = EmptyNotebook

\* C20 -- getFiles and loadFiles are symmetric: the list getFiles returns on
\* a store, written by loadFiles into an empty store, is the list getFiles
\* returns on that store -- the same files, with the same paths, formats and
\* contents.
C20_FilesSymmetric ==
  (outcome.op = "export" /\ restoredList.valid) =>
    /\ SeqToSet(outcome.list) = SeqToSet(restoredList.list)
    /\ Len(outcome.list) = Len(restoredList.list)
C20_Witness ==
  /\ outcome.op = "export" /\ restoredList.valid
  /\ Len(restoredList.list) = 2
  /\ \E i \in 1..2 : /\ restoredList.list[i].path = "img/plot.png"
                     /\ restoredList.list[i].format = "base64"
  /\ \E i \in 1..2 : /\ restoredList.list[i].path = "data.csv"
                     /\ restoredList.list[i].format = "text"
  /\ kv["img"].type = "directory"

\* C31 -- the list getFiles returns: the entry at the canonical notebook
\* key, a directory entry, an entry whose key is in the checkpoint namespace
\* and an entry with null content never appear in it; every other entry of
\* the store appears in it exactly once.
Listed(list, key) == Cardinality({i \in 1..Len(list) : list[i].path = key})
C31_Excluded(key) ==
  \/ ~kv[key].present
  \/ key = NOTEBOOK_PATH
  \/ kv[key].type = "directory"
  \/ key \in {".ipynb_checkpoints", ".ipynb_checkpoints/assignment.ipynb"}
  \/ kv[key].content.isNull
C32_LocalEdit(msg) ==
  /\ ~IsPendingReply(msg)
  /\ \/ msg.action = "cellExecuted"
     \/ msg.action = "dirty" /\ msg.data.isDirty
C32_Expires == saveTimer /\ ~saveTimer'
C32_Step ==
  /\ (toParent # <<>> /\ toParent' = Tail(toParent) /\ C32_LocalEdit(Head(toParent)))
       => (saveTimer' /\ autoSaveTimers' = autoSaveTimers /\ ops' = ops)
  /\ C32_Expires =>
       /\ autoSaveTimers' = autoSaveTimers
       /\ IF saveStateEnters
          THEN Len(ops') = Len(ops) + 1 /\ ops'[Len(ops')].kind = "save"
          ELSE ops' = ops
  /\ (saveTimer' /\ ~saveTimer) =>
       (toParent # <<>> /\ C32_LocalEdit(Head(toParent)))
C32_DebounceCoalesces == [][C32_Step]_vars
\* The same property with the `dirty` notifications left aside.
C32_CellExecutedOnly ==
  [][(toParent # <<>> /\ Head(toParent).action = "dirty") \/ C32_Step]_vars

\* C33 -- request ids are strictly increasing and never reused during a
\* parent session, also across child reloads, and the pending map holds
\* exactly the requests that were sent and have neither been answered nor
\* timed out: the ids issued so far are 1 .. requestId, the requests under
\* way to the child carry ids in increasing order, the pending entries are
\* the unsettled requests; a step adds to the pending map exactly the ids
\* above the last one issued, and a reload changes neither.
C33_Inv ==
  /\ Len(reqs) = requestId
  /\ pending = {i \in 1..requestId : reqs[i].status = "pending"}
  /\ \A i \in 1..Len(toChild) :
       /\ toChild[i].requestId \in 1..requestId
       /\ \A j \in 1..Len(toChild) :
            i < j => toChild[i].requestId < toChild[j].requestId
C33_Step ==
  /\ requestId' >= requestId
  /\ pending' \ pending = (requestId + 1)..requestId'
  /\ \A i \in 1..Len(toChild') :
       (\A j \in 1..Len(toChild) : toChild[j] # toChild'[i])
         => toChild'[i].requestId > requestId
  /\ gen' # gen => (requestId' = requestId /\ pending' = pending)
C33_IdsAndPending == [](C33_Inv) /\ [][C33_Step]_vars
\* After a reload of the child all ids have been issued; one request is
\* still pending, one was answered and one timed out.
C33_Witness ==
  /\ gen = 2 /\ requestId = MaxReq
  /\ pending # {}
  /\ \E i, j \in 1..requestId :
       reqs[i].status = "resolved" /\ reqs[j].status = "rejected"

\* ------------------------------------------------------------------------
\* The event log at its real capacity (bridge.js 61-68)
\* ------------------------------------------------------------------------
MaxLogged == 502
\* The logs a session can start from: empty (first visit), or the log an
\* earlier session saved (634), which logEvent kept within MAX_EVENTS.
\* Entries are numbered: the entries found at the start 1 - start .. 0, the
\* n-th event logged in this session n.
StartLengths == {0, 1, MAX_EVENTS - 1, MAX_EVENTS}
InitLog ==
  /\ MainIdle
  /\ NoStray
  /\ BootAtRest
  /\ ChainAtRest
  /\ Shim3AtRest
  /\ GuardAtRest
  /\ AdapterAtRest
  /\ StoreAtRest
  /\ \E n \in StartLengths :
       elog = [start |-> n, appended |-> 0, ring |-> [i \in 1..n |-> i - n]]

\* One call of logEvent.
LogOne ==
  /\ elog.appended < MaxLogged
  /\ elog' = [elog EXCEPT !.appended = @ + 1,
                          !.ring = logEvent(@, elog.appended + 1)]
  /\ UNCHANGED notLog

NextLog == LogOne
SpecLog == InitLog /\ [][NextLog]_vars

\* C21 -- the event log is bounded.  Starting from a log of at most 500
\* entries, after any number of logEvent calls the log holds at most 500
\* entries and they are the most recent ones in order; a call on a full log
\* evicts exactly the oldest entry, and 501 events appended to an empty log
\* leave exactly the 500 most recent.
Min(a, b) == IF a < b THEN a ELSE b
C21_Inv ==
  /\ Len(elog.ring) = Min(MAX_EVENTS, elog.start + elog.appended)
  /\ \A i \in 1..Len(elog.ring) :
       elog.ring[i] = elog.appended - Len(elog.ring) + i
C21_Step ==
  elog' # elog =>
    /\ elog'.ring[Len(elog'.ring)] = elog'.appended
    /\ IF Len(elog.ring) < MAX_EVENTS
       THEN elog'.ring = Append(elog.ring, elog'.appended)
       ELSE elog'.ring = Append(Tail(elog.ring), elog'.appended)
C21_EventLogBounded == [](C21_Inv) /\ [][C21_Step]_vars
C21_Witness ==
  /\ elog.start = 0 /\ elog.appended = MAX_EVENTS + 1
  /\ Len(elog.ring) = MAX_EVENTS
  /\ elog.ring[1] = 2 /\ elog.ring[MAX_EVENTS] = MAX_EVENTS + 1

\* C22 -- both receivers drop every envelope whose type is not the protocol's
\* tag and every envelope whose sender is not the expected counterpart (the
\* child frame's window for the parent, the parent for the shim): the
\* delivery of such an envelope changes no state of the session and produces
\* no reply.
C22_Counterpart(to) == IF to = "parent" THEN "childFrame" ELSE "parent"
C22_DropsOutsiders ==
  [][(stray'.n # stray.n /\
      (stray'.type # TAG \/ stray'.source # C22_Counterpart(stray'.to)))
       => (toParent' = toParent /\ toChild' = toChild /\ handlers' = handlers
           /\ flushPending' = flushPending /\ reqs' = reqs /\ st' = st
           /\ store' = store /\ reloadTimer' = reloadTimer)]_vars

\* C23: each request of the eight actions that the shim has received, and
\* whose child context is not reloaded meanwhile, gets exactly one reply
\* carrying its requestId, on the success path and on the failure path: no
\* request is answered twice; before any reload each posted request is in
\* exactly one place (still in the channel, held by a handler of the shim, or
\* answered once); a handler that ends, and a request the listener answers
\* at once, post one reply with the request's id; and no reply is posted in
\* any other way.
Replies(r) ==
  Cardinality({i \in 1..Len(toParent) : toParent[i].requestId = r})
Queued(r) ==
  Cardinality({i \in 1..Len(toChild) : toChild[i].requestId = r})
Held(hs, r) == IF \E h \in hs : h.id = r THEN 1 ELSE 0
OneReply(r) ==
  /\ Len(toParent') = Len(toParent) + 1
  /\ toParent' = Append(toParent, toParent'[Len(toParent')])
  /\ toParent'[Len(toParent')].requestId = r
C23_Inv ==
  \A r \in 1..requestId :
    /\ Replies(r) <= 1
    /\ gen <= 1 => Queued(r) + Held(handlers, r) + Replies(r) = 1
C23_Step ==
  gen' = gen =>
    /\ \A h \in handlers : Held(handlers', h.id) = 0 => OneReply(h.id)
    /\ (toChild # <<>> /\ toChild' = Tail(toChild)
          /\ Head(toChild).action \in RequestActions) =>
         LET r == Head(toChild).requestId
         IN \/ Held(handlers', r) = 1 /\ toParent' = toParent
            \/ Held(handlers', r) = 0 /\ OneReply(r)
    /\ toParent' # toParent =>
         \/ OneReply(0)
         \/ \E h \in handlers : Held(handlers', h.id) = 0 /\ OneReply(h.id)
         \/ toChild # <<>> /\ toChild' = Tail(toChild)
              /\ OneReply(Head(toChild).requestId)
C23_OneReplyEach == [](C23_Inv) /\ [][C23_Step]_vars
\* MaxAsk requests were served without a reload, one on a failure path and one
\* on a success path.
C23_Witness ==
  /\ gen = 1 /\ requestId = MaxAsk /\ ~reloadTimer
  /\ \A r \in 1..MaxAsk : Replies(r) = 1
  /\ \E i, j \in 1..Len(toParent) :
       /\ toParent[i].requestId > 0 /\ toParent[i].data.success
       /\ toParent[j].requestId > 0 /\ ~toParent[j].data.success
\* C29: no action of the shim other than loadNotebook reloads the child, and
\* the child is reloaded at most once per loadNotebook request received: a
\* reload is scheduled only in a step in which a loadNotebook handler ends
\* with its success reply, the child context changes only by a scheduled
\* reload, and the reloads done or scheduled never outnumber the successful
\* loadNotebook replies.
Loaded(action) ==
  Cardinality({i \in 1..Len(toParent) :
                 toParent[i].action = action /\ toParent[i].data.success})
C29_Inv ==
  gen >= 1 =>
    (gen - 1) + (IF reloadTimer THEN 1 ELSE 0) <= Loaded("notebookLoaded")
C29_Step ==
  /\ (reloadTimer' /\ ~reloadTimer) =>
       \E h \in handlers \ handlers' :
         /\ h.action = "loadNotebook"
         /\ OneReply(h.id)
         /\ toParent'[Len(toParent')].data.success
  /\ (gen' # gen /\ gen >= 1) => (reloadTimer /\ gen' = gen + 1)
C29_OnlyLoadNotebookReloads == [](C29_Inv) /\ [][C29_Step]_vars
\* The child was reloaded once, after a loadNotebook, and the shim has also
\* served a loadFiles with a file and a runAll.
C29_Witness ==
  /\ gen = 2 /\ ~reloadTimer
  /\ Loaded("notebookLoaded") = 1
  /\ Loaded("filesLoaded") = 1 /\ store.files # {}
  /\ Loaded("runAllComplete") = 1

\* C24: the Document restored on the first `ready` is the one loadState
\* returned, whatever saves and replies came before the first `ready`: each
\* loadNotebook request carries the loaded Document and each loadFiles
\* request the loaded files, and until the first `ready` is handled the
\* Document of the server's SessionState is the loaded one.
C24_RestoresLoaded ==
  /\ \A i \in 1..Len(toChild) :
       /\ toChild[i].action = "loadNotebook"
            => toChild[i].data.notebook = loaded.notebook
       /\ toChild[i].action = "loadFiles"
            => toChild[i].data.files = loaded.files
  /\ (~isReview /\ Truthy(loaded.notebook) /\ readies = 0)
       => srv.st.notebook = loaded.notebook
\* C25: the reload that loadNotebook schedules does not cut the file restore
\* short: when the child context is torn down, no loadFiles handler is still
\* writing files or still owes its reply.
C25_Step ==
  (gen >= 1 /\ gen' = gen + 1) => \A h \in handlers : h.action # "loadFiles"
C25_FilesBeforeReload == [][C25_Step]_vars
\* C26: the handshake ends in Steady also when loadNotebook causes no
\* reload.  Stated on the states where the outcome is final: the first
\* `ready` of a student session restored a Document, every restore request
\* has settled (reply or timeout), the child was not reloaded and no reload
\* is scheduled, and no message is under way; in such a state autosave is
\* running.
C26_RestoreOverWithoutReload ==
  /\ ~isReview /\ readies = 1 /\ Truthy(firstDoc)
  /\ OfKind("restore") # {}
  /\ \A i \in OfKind("restore") : Settled(i)
  /\ gen = 1 /\ ~reloadTimer /\ shimReady
  /\ handlers = {} /\ toChild = <<>> /\ toParent = <<>>
C26_SteadyWithoutReload ==
  C26_RestoreOverWithoutReload => autoSaveTimers >= 1
\* C27: a getFiles or getNotebook request of a save or of a submission that
\* was answered with a failure reply leaves the files and the Document of
\* SessionState as they were: when the reaction of the two requests runs and
\* the files result (the Document result) is a failure reply, _state.files
\* (_state.notebook) is unchanged.
C27_Step ==
  \A r \in pending \ pending' :
    LET q == reqs[r]
        mine == IF toParent' # toParent THEN Head(toParent).data ELSE NoData
        other == reqs[q.peer].val
        nbData == IF q.action = "getNotebook" THEN mine ELSE other
        filesData == IF q.action = "getFiles" THEN mine ELSE other
    IN (q.kind \in {"save", "submit"} /\ q.peer # 0
         /\ reqs[q.peer].status # "pending") =>
         /\ filesData.error => st'.files = st.files
         /\ nbData.error => st'.notebook = st.notebook
C27_FailedReadKeepsState == [][C27_Step]_vars
\* ------------------------------------------------------------------------
\* The store connection of the v3 shim (template/bridge-shim.js 118-208)
\* ------------------------------------------------------------------------
InitShim3 ==
  /\ MainIdle
  /\ NoStray
  /\ BootAtRest
  /\ ChainAtRest
  /\ LogAtRest
  /\ GuardAtRest
  /\ AdapterAtRest
  /\ StoreAtRest
  /\ \E d \in [AdapterNames -> {"absent", "nofiles", "ready"}] :
       shim3 = [idb |-> d, waiting |-> {}, upgraded |-> {}, db |-> NoName,
                open |-> {}, op |-> IdleOp3]

\* The fixed names of the shim (40-46).
DB_NAME_CANDIDATES ==
  <<"JupyterLite Storage", "JupyterLite Storage - ./", "JupyterLite Storage - /",
    "JupyterLite Storage - /lab", "JupyterLite Storage - ./lab">>
\* What the platform holds under a name.
StoreState3(n) == IF n \in AdapterNames THEN shim3.idb[n] ELSE "absent"

\* getDB (156-159) at the start of readItem / writeItem / getAllKeys: the
\* kept connection if there is one, else discoverDatabase opens a candidate.
\* discoverDatabase (72-102): with indexedDB.databases(), the first name it
\* returns that contains 'JupyterLite Storage' is opened and, should that
\* fail, the fixed names follow; without it, or without a match, the fixed
\* names alone.
discoverDatabase(supported, names) ==
  LET matches == IF supported THEN names ELSE <<>>
  IN [seen |-> matches,
      list |-> IF matches # <<>> THEN <<matches[1]>> \o DB_NAME_CANDIDATES
               ELSE DB_NAME_CANDIDATES]
getDB ==
  /\ shim3.op.pc \in {"idle", "done"}
  /\ IF shim3.db # NoName
     THEN shim3' = [shim3 EXCEPT !.op = [IdleOp3 EXCEPT !.pc = "tx",
                                                        !.name = shim3.db]]
     ELSE \E supported \in BOOLEAN :
          \E names \in Orders({n \in AdapterNames : shim3.idb[n] # "absent"}) :
            LET d == discoverDatabase(supported, names)
            IN shim3' = [shim3 EXCEPT !.op = [IdleOp3 EXCEPT
                           !.pc = "opening", !.name = Head(d.list),
                           !.cands = Tail(d.list), !.seen = d.seen]]
  /\ UNCHANGED notShim3

\* tryNextCandidate (105-113): the next fixed name, or the rejection of the
\* discovery when none is left.
tryNextCandidate(o, why) ==
  IF o.cands = <<>>
  THEN [o EXCEPT !.pc = "done", !.how = why, !.probed = @ \cup {o.name}]
  ELSE [o EXCEPT !.name = Head(o.cands), !.cands = Tail(o.cands),
                 !.probed = @ \cup {o.name}]

\* openDatabase (118-151): the open request of a store that does not exist
\* is aborted; a store without `files` is closed again; a store with `files`
\* is kept in _db, open.
openDatabase ==
  LET o == shim3.op
      n == o.name
  IN /\ o.pc = "opening"
     /\ n \notin shim3.waiting
     /\ CASE StoreState3(n) = "absent" ->
               shim3' = [shim3 EXCEPT !.op = tryNextCandidate(o, "absent")]
          [] StoreState3(n) = "nofiles" ->
               shim3' = [shim3 EXCEPT !.op = tryNextCandidate(o, "nofiles")]
          [] OTHER ->
               shim3' = [shim3 EXCEPT !.db = n, !.open = @ \cup {n},
                            !.op = [o EXCEPT !.pc = "tx", !.cands = <<>>,
                                             !.probed = @ \cup {n}]]
     /\ UNCHANGED notShim3

\* The request of readItem / writeItem (164-208) completes: the promise of
\* the operation settles; nothing closes the connection.
ItemDone ==
  /\ shim3.op.pc = "tx"
  /\ \E ok \in BOOLEAN :
       shim3' = [shim3 EXCEPT !.op = [@ EXCEPT !.pc = "done",
                                        !.how = IF ok THEN "ok" ELSE "opfail"]]
  /\ UNCHANGED notShim3

\* The runtime creates a store, without the `files` collection at first.
Runtime3Creates(n) ==
  /\ shim3.idb[n] = "absent"
  /\ shim3' = [shim3 EXCEPT !.idb[n] = "nofiles"]
  /\ UNCHANGED notShim3

\* The runtime asks for a new version of a store.  The platform sends
\* `versionchange` to the open connections; the v3 shim registers no handler
\* for it, so its connection stays open and the upgrade has to wait.
Runtime3Upgrades(n) ==
  /\ shim3.idb[n] \in {"nofiles", "ready"}
  /\ n \notin shim3.waiting
  /\ ~(shim3.op.pc = "opening" /\ shim3.op.name = n)
  /\ IF n \in shim3.open
     THEN shim3' = [shim3 EXCEPT !.waiting = @ \cup {n}]
     ELSE shim3' = [shim3 EXCEPT !.idb[n] = "ready", !.upgraded = @ \cup {n}]
  /\ UNCHANGED notShim3

\* A waiting upgrade runs once no connection to the store is open.
UpgradeProceeds(n) ==
  /\ n \in shim3.waiting
  /\ n \notin shim3.open
  /\ shim3' = [shim3 EXCEPT !.idb[n] = "ready", !.waiting = @ \ {n},
                            !.upgraded = @ \cup {n}]
  /\ UNCHANGED notShim3

\* The child context is reloaded or left: the script state is gone and the
\* platform closes the connections of the page.
Shim3Unload ==
  /\ shim3.op.pc # "idle" \/ shim3.open # {}
  /\ shim3' = [shim3 EXCEPT !.db = NoName, !.open = {}, !.op = IdleOp3]
  /\ UNCHANGED notShim3

NextShim3 ==
  \/ getDB
  \/ openDatabase
  \/ ItemDone
  \/ \E n \in AdapterNames : Runtime3Creates(n)
  \/ \E n \in AdapterNames : Runtime3Upgrades(n)
  \/ \E n \in AdapterNames : UpgradeProceeds(n)
  \/ Shim3Unload
SpecShim3 == InitShim3 /\ [][NextShim3]_vars

\* C28: the v3 shim holds no store connection once the promise of an
\* operation has settled, and an upgrade the runtime asks for never has to
\* wait for a connection of the shim.
C28_NoConnectionKept ==
  /\ shim3.op.pc \in {"idle", "done"} => shim3.open = {}
  /\ shim3.waiting = {}

\* discoverDatabaseName of the v3.1 shim, probe by probe: a name is taken
\* only by the probe that found `files` in the first remaining candidate;
\* a probe leaves its candidate only for the next one of the enumeration,
\* and the discovery fails only when the last candidate has failed.
C34_ProbeStep ==
  /\ dbName' # dbName =>
       \E i \in Slots : /\ aops[i].pc = "probeOpened"
                        /\ dbName' = Head(aops[i].cands)
                        /\ HasFiles(dbName')
  /\ \A i \in Slots :
       LET o == aops[i]
           n == Head(o.cands)
       IN (Probing(o) /\ aops'[i].cands # o.cands) =>
            \/ o.pc = "probeOpened" /\ HasFiles(n) /\ dbName' = n
            \/ /\ o.pc = "probeOpened" => ~HasFiles(n)
               /\ IF Len(o.cands) > 1
                  THEN aops'[i].pc = "probing" /\ aops'[i].cands = Tail(o.cands)
                  ELSE aops'[i].pc = "done" /\ aops'[i].how = "nodb"
C34_AdapterProbesInOrder == [][C34_ProbeStep]_vars
\* C34: a store without the `files` collection, or one that cannot be
\* opened, never stops the stores enumerated after it from being probed: a
\* discovery that fails has opened every store the enumeration returned,
\* and a discovery that succeeds has opened every store enumerated before
\* the one it returns.
C34_Before(o, n) ==
  {o.seen[j] : j \in {k \in 1..Len(o.seen) : \A m \in 1..k : o.seen[m] # n}}
C34_LaterCandidatesProbed ==
  LET o == shim3.op
  IN /\ (o.pc = "done" /\ o.how \in {"absent", "nofiles"} /\ o.probed # {})
          => SeqToSet(o.seen) \subseteq o.probed
     /\ (o.pc = "tx" /\ o.probed # {} /\ o.name \in SeqToSet(o.seen))
          => C34_Before(o, o.name) \subseteq o.probed
\* C40: the cumulative counters of SessionState never decrease during a
\* session: no step sets the elapsed time, the interaction counter or the
\* execution counter to a value lower than it had before.
C40_Step ==
  /\ st'.timeSpent >= st.timeSpent
  /\ st'.interactions >= st.interactions
  /\ st'.cellExecutions >= st.cellExecutions
C40_CountersNeverDecrease == [][C40_Step]_vars
\* The elapsed time and the interaction counter on their own.
C40_TimeAndInteractions ==
  [][st'.timeSpent >= st.timeSpent /\ st'.interactions >= st.interactions]_vars
\* ------------------------------------------------------------------------
\* init() of the parent page (bridge.js 570-653), callback by callback
\* ------------------------------------------------------------------------
MaxTicks == 2
InitBoot ==
  /\ MainIdle
  /\ NoStray
  /\ ChainAtRest
  /\ Shim3AtRest
  /\ LogAtRest
  /\ GuardAtRest
  /\ AdapterAtRest
  /\ StoreAtRest
  /\ \E f \in BOOLEAN, z \in BOOLEAN :
       boot = [BootIdle EXCEPT !.hasFrame = f, !.zest = z]

\* setupUI(); loadJupyterLite(); and, outside review, startTimeTracking()
\* (585-587, 598-600, 622-623, 641-644, 647-650).  startTimeTracking
\* (277-282) sets a new interval whether or not one is running.
StartUp(b, tracking) ==
  [b EXCEPT !.ui = @ + 1, !.guards = @ + 1, !.clearing = @ + 1,
            !.tickers = IF tracking THEN @ + 1 ELSE @]

\* init() (570-610): without the frame element it returns; without Zest it
\* starts up at once; with Zest it arms the fallback timer and registers
\* the onReady callback.
init ==
  /\ boot.pc = "script"
  /\ boot' =
       IF ~boot.hasFrame THEN [boot EXCEPT !.pc = "noframe"]
       ELSE IF ~boot.zest
       THEN StartUp([boot EXCEPT !.pc = "inited", !.listeners = @ + 1], TRUE)
       ELSE [boot EXCEPT !.pc = "inited", !.listeners = @ + 1,
                         !.fallback = TRUE, !.registered = TRUE]
  /\ UNCHANGED notBoot

\* The fallback timer fires after 5 s (593-602).
FallbackTimeout ==
  /\ boot.fallback
  /\ boot' = IF ~boot.readyFired
             THEN StartUp([boot EXCEPT !.fallback = FALSE, !.zest = FALSE], TRUE)
             ELSE [boot EXCEPT !.fallback = FALSE]
  /\ UNCHANGED notBoot

\* The server calls the onReady callback (604-627): before the fallback
\* timer fires, or after it.
OnReadyCallback ==
  /\ boot.registered
  /\ ~boot.called
  /\ \E review \in BOOLEAN :
       LET b == [boot EXCEPT !.called = TRUE, !.readyFired = TRUE,
                             !.fallback = FALSE, !.review = review]
       IN boot' = IF review THEN StartUp(b, FALSE)
                  ELSE [b EXCEPT !.loadState = "pending"]
  /\ UNCHANGED notBoot

\* Zest.loadState() settles (630-651) with a saved state, with none, or
\* with an error: the then branch and the catch branch both start time
\* tracking, set up the UI and load the runtime.
LoadStateSettles ==
  /\ boot.loadState = "pending"
  /\ \E how \in {"saved", "empty", "failed"} :
       boot' = StartUp([boot EXCEPT !.loadState = how], TRUE)
  /\ UNCHANGED notBoot

\* A clearJupyterLiteStorage promise resolves and loadJupyterLite sets the
\* iframe source and arms the timer that waits for the extension (725-747).
BootLoads ==
  /\ boot.clearing > 0
  /\ boot' = [boot EXCEPT !.clearing = @ - 1, !.loads = @ + 1,
                          !.readyTimers = @ + 1]
  /\ UNCHANGED notBoot

\* READY_TIMEOUT_MS after a load (740-746): the loading overlay is
\* dismissed unless the extension has signalled.
ReadyTimeout ==
  /\ boot.readyTimers > 0
  /\ boot' = [boot EXCEPT !.readyTimers = @ - 1, !.extensionReady = TRUE]
  /\ UNCHANGED notBoot

\* One of the time-tracking intervals fires (279-281).
TimeTick ==
  /\ boot.tickers > 0
  /\ boot.timeSpent < MaxTicks
  /\ boot' = [boot EXCEPT !.timeSpent = @ + 1]
  /\ UNCHANGED notBoot

NextBoot ==
  \/ init
  \/ FallbackTimeout
  \/ OnReadyCallback
  \/ LoadStateSettles
  \/ BootLoads
  \/ ReadyTimeout
  \/ TimeTick
SpecBoot == InitBoot /\ [][NextBoot]_vars

\* C38: session start-up runs exactly once, whether onReady fires before
\* the fallback timer, after it, or never: the isolation guard is run at
\* most once, the child context is loaded at most once, the UI handlers are
\* installed at most once, at most one time-tracking interval is started,
\* and a start-up that has run has done each of the first three once.
C38_StartsOnce ==
  /\ boot.guards <= 1 /\ boot.loads <= 1 /\ boot.ui <= 1 /\ boot.tickers <= 1
  /\ boot.listeners <= 1
  /\ boot.ui = boot.guards /\ boot.loads + boot.clearing = boot.guards
\* The same for the sessions in which onReady does not fire after the
\* fallback timer has.
C38_Late == boot.called /\ boot.registered /\ ~boot.zest
C38_OnTimeStartsOnce == ~C38_Late => C38_StartsOnce

\* ------------------------------------------------------------------------
\* The checkReady loop (part_004 543-590) until `ready` is sent
\* ------------------------------------------------------------------------
\* The adapter before any request of the wrapper: the timer of checkReady,
\* the discovery, the reads that follow it, and the runtime that creates,
\* upgrades and deletes stores meanwhile.
NextDiscovery ==
  \/ checkReady
  \/ \E i \in Slots : Enumerate(i)
  \/ \E i \in Slots : PlatformOpen(i)
  \/ \E i \in Slots : OnUpgradeNeeded(i)
  \/ \E i \in Slots : tryOpenWithFilesStore(i)
  \/ \E i \in Slots : withDB(i)
  \/ \E i \in Slots : RequestDone(i)
  \/ \E n \in AdapterNames : RuntimeCreates(n)
  \/ \E n \in AdapterNames : RuntimeUpgrades(n)
  \/ \E n \in AdapterNames : StoreDeleted(n)
\* A request the platform serves without an error.
Served(i) == aops'[i].pc \notin {"done", "probing", "idle"}
\* Timers fire and handlers of settled requests run; the platform does not
\* answer every enumeration, or every open request of one store, with an
\* error for ever.
FairDiscovery ==
  /\ WF_vars(checkReady)
  /\ \A i \in Slots :
       /\ SF_vars(Enumerate(i) /\ aops'[i].pc = "probing")
       /\ \A n \in AdapterNames :
            SF_vars(PlatformOpen(i) /\ Served(i) /\ Target(aops[i]) = n)
       /\ WF_vars(OnUpgradeNeeded(i))
       /\ WF_vars(tryOpenWithFilesStore(i))
       /\ WF_vars(withDB(i))
       /\ WF_vars(RequestDone(i))
SpecDiscovery == InitAdapter /\ [][NextDiscovery]_vars /\ FairDiscovery

\* A store the discovery has among its candidates: any existing store where
\* the platform can enumerate, the known name where it cannot (66).
Candidate(n) == canEnum \/ n = "JupyterLite Storage"
\* The loop of checkReady is alive: its timer is set or its operation is
\* under way.
C35_Looping ==
  checkTimer \/ \E i \in Slots : aops[i].by = "ready" /\ ~Free(i)
\* A discovery of checkReady fails in this step.
C35_Fails(i) ==
  /\ ~Free(i) /\ aops[i].by = "ready" /\ aops[i].kind = "discover"
  /\ aops'[i].pc = "done" /\ aops'[i].how # "ok"
\* C35: discovery is retried without a deadline.  Every failed discovery
\* of checkReady sets the retry timer, and it is the only one; until
\* `ready` has been sent the loop is alive (timer set or operation under
\* way), so no failure ends it; and if a candidate store has the `files`
\* collection from some point on for ever, `ready` is sent.
C35_Inv == emitted = <<>> => C35_Looping
C35_Step ==
  \A i \in Slots : C35_Fails(i) => (~checkTimer /\ checkTimer')
C35_RetriedUntilReady ==
  /\ [](C35_Inv)
  /\ [][C35_Step]_vars
  /\ \A n \in AdapterNames :
       (<>[](Candidate(n) /\ HasFiles(n))) => <>(emitted # <<>>)
\* A discovery of checkReady has just failed and set the retry timer while
\* no store has the collection yet.
C35_Witness ==
  /\ emitted = <<>>
  /\ checkTimer
  /\ \A n \in AdapterNames : ~HasFiles(n)
  /\ \E i \in Slots : /\ aops[i].pc = "done" /\ aops[i].by = "ready"
                       /\ aops[i].kind = "discover" /\ aops[i].how = "nodb"
\* `ready` has been sent for a store found after the runtime added `files`.
C35_ReadySent ==
  /\ Len(emitted) = 1
  /\ \E n \in AdapterNames : expected[n] = "ready" /\ emitted[1].dbName = n
\* C35 as stated, for any store of the runtime: where the platform cannot
\* enumerate, only the known name is probed, and a store under another name
\* is never found however long it stays.
C35_AsStated ==
  /\ [](C35_Inv)
  /\ [][C35_Step]_vars
  /\ \A n \in AdapterNames : (<>[](HasFiles(n))) => <>(emitted # <<>>)
\* ------------------------------------------------------------------------
\* restoreFilesToDB (part_004 340-390) write by write
\* ------------------------------------------------------------------------
\* A path is the sequence of its segments, f.path.split('/').
MaxFiles == 2
RestorePaths == {<<"f.txt">>, <<"a", "f.txt">>, <<"a", "b", "f.txt">>, <<"b", "g.txt">>}
RestoreInputs ==
  UNION {[1..n -> [parts : RestorePaths, content : {"", "xy"}]] : n \in 1..MaxFiles}

\* for (d = 1; d < parts.length; d++) parts.slice(0, d).join('/') (351-365)
PrefixesLongestFirst(parts) ==
  [d \in 1..(Len(parts) - 1) |-> SubSeq(parts, 1, Len(parts) - d)]
Prefixes(parts) == [d \in 1..(Len(parts) - 1) |-> SubSeq(parts, 1, d)]
\* The directory entry (353-364): name parts[d - 1], content null, size 0.
DirWrite(dirPath) ==
  [path |-> dirPath, name |-> dirPath[Len(dirPath)], type |-> "directory",
   isNull |-> TRUE, content |-> "", size |-> 0]
\* The file entry (371-383).
LeafWrite(f) ==
  [path |-> f.parts, name |-> f.parts[Len(f.parts)], type |-> "file",
   isNull |-> FALSE, content |-> f.content,
   size |-> IF f.content = "" THEN 0 ELSE 2]
\* The writes one file adds to the chain.
WritesOf(f) ==
  [d \in 1..(Len(f.parts) - 1) |-> DirWrite(Prefixes(f.parts)[d])]
    \o <<LeafWrite(f)>>
RECURSIVE ChainOf(_)
ChainOf(fs) == IF fs = <<>> THEN <<>> ELSE WritesOf(Head(fs)) \o ChainOf(Tail(fs))

InitChain ==
  /\ MainIdle
  /\ NoStray
  /\ BootAtRest
  /\ LogAtRest
  /\ GuardAtRest
  /\ AdapterAtRest
  /\ StoreAtRest
  /\ Shim3AtRest
  /\ ChainAtRest

\* The loadFiles case calls restoreFilesToDB(files): the loop builds the
\* whole chain before the first write runs.
BuildChain ==
  /\ chain.how # "running"
  /\ \E fs \in RestoreInputs :
       chain' = [given |-> fs, todo |-> ChainOf(fs), written |-> <<>>,
                 how |-> "running"]
  /\ UNCHANGED notChain

\* The next writeItem of the chain settles: a write that fails rejects the
\* chain, and the writes behind it are never made.
ChainWrite ==
  /\ chain.how = "running"
  /\ \E ok \in BOOLEAN :
       IF ok
       THEN chain' = [chain EXCEPT !.todo = Tail(@),
                                   !.written = Append(@, Head(chain.todo)),
                                   !.how = IF Len(chain.todo) = 1
                                           THEN "resolved" ELSE "running"]
       ELSE chain' = [chain EXCEPT !.todo = <<>>, !.how = "rejected"]
  /\ UNCHANGED notChain

NextChain == BuildChain \/ ChainWrite
SpecChain == InitChain /\ [][NextChain]_vars

\* C30: for every file whose path has k >= 1 parent segments, loadFiles
\* writes a zero-content directory entry for each proper prefix of the path,
\* from the shortest prefix to the longest, and the entry of the file only
\* after all of them: the k writes just before the write of the file are
\* the directory entries of its prefixes of length 1 .. k, in that order;
\* and a chain that resolved has written every file it was given.
C30_Inv ==
  /\ \A i \in 1..Len(chain.written) :
       LET w == chain.written[i]
           k == Len(w.path) - 1
       IN w.type = "file" =>
            /\ i > k
            /\ \A d \in 1..k :
                 LET e == chain.written[i - k + d - 1]
                 IN /\ e.path = SubSeq(w.path, 1, d)
                    /\ e.type = "directory"
                    /\ e.isNull /\ e.size = 0
  /\ chain.how = "resolved" =>
       \A j \in 1..Len(chain.given) :
         \E i \in 1..Len(chain.written) :
           /\ chain.written[i].type = "file"
           /\ chain.written[i].path = chain.given[j].parts
C30_Step ==
  chain'.written # chain.written =>
    \/ chain'.written = <<>>
    \/ /\ chain.todo # <<>>
       /\ chain'.written = Append(chain.written, Head(chain.todo))
C30_ParentsBeforeLeaf == [](C30_Inv) /\ [][C30_Step]_vars
\* A file two directories deep has been written after its two directories.
C30_Witness ==
  /\ chain.how = "resolved"
  /\ \E i \in 3..Len(chain.written) :
       /\ chain.written[i].path = <<"a", "b", "f.txt">>
       /\ chain.written[i].type = "file"
       /\ chain.written[i - 2].path = <<"a">>
       /\ chain.written[i - 1].path = <<"a", "b">>
====
